---------------------------- MODULE Spec2Model ----------------------------
(***************************************************************************)
(* Model of the tboggle word-finding library (libwords.c, the file         *)
(* src/unnamed/part_002): the found-word hash table, the packed DAWG       *)
(* accessors, the dice roller, the recursive board+DAWG search find_words, *)
(* the evaluation entry find_all_words, the prefilter                      *)
(* board_looks_promising, the rejection-sampling loop fill_board and the   *)
(* two public entry points get_words and restore_game.                     *)
(*                                                                         *)
(* Characters are their ASCII codes ('A' = 65, '0' = 48, '_' = 95), C      *)
(* strings are sequences of codes.  The recursion of find_words is an      *)
(* explicit stack of frames; one step of the model is one call of          *)
(* find_words (up to its neighbour loop) or one return.                    *)
(***************************************************************************)
EXTENDS Integers, Sequences, FiniteSets, TLC

(***************************************************************************)
(* Program constants                                                       *)
(***************************************************************************)
HASH_SIZE == 15877
MAX_WORDS == 5000
NUM_FACES == 6
MAX_WORD_LEN == 16
INT32_MAX == 2147483647
CHILD_BIT_SHIFT == 10
EOW_BIT_MASK == 512
EOL_BIT_MASK == 256
LTR_BIT_MASK == 255
DJB2_INIT == 5381
NULL == -1
DICE_SIZE == 37

(* Bounds of the model: seeds 0..MaxSeed, max_tries 0..MaxTries. *)
MaxSeed == 2
MaxTries == 2
MaxOps == 4
MaxDice == 4

(* g_deltas[8][2]: NW, N, NE, W, E, SW, S, SE as <<dy, dx>>. *)
g_deltas == << <<-1, -1>>, <<-1, 0>>, <<-1, 1>>,
               << 0, -1>>,            << 0, 1>>,
               << 1, -1>>, << 1, 0>>, << 1, 1>> >>

(* g_special_dice[6][2]: '0' "__", '1' "QU", '2' "IN", '3' "TH", '4' "ER", '5' "HE". *)
g_special_dice == << <<95, 95>>, <<81, 85>>, <<73, 78>>,
                     <<84, 72>>, <<69, 82>>, <<72, 69>> >>

(***************************************************************************)
(* Packed DAWG: dw is the array the global pointer dawg refers to, so      *)
(* dawg[i] is dw[i + 1]; dawg[0] is the sentinel.                          *)
(***************************************************************************)
DawgNode(dw, i) == dw[i + 1]
DAWG_LETTER(dw, i) == DawgNode(dw, i) % (LTR_BIT_MASK + 1)
DAWG_EOW(dw, i) == (DawgNode(dw, i) \div EOW_BIT_MASK) % 2 = 1
DAWG_EOL(dw, i) == (DawgNode(dw, i) \div EOL_BIT_MASK) % 2 = 1
DAWG_NEXT(dw, i) == IF DAWG_EOL(dw, i) THEN 0 ELSE i + 1
DAWG_CHILD(dw, i) == DawgNode(dw, i) \div (2 ^ CHILD_BIT_SHIFT)

(* while (i != 0 && letter(i) != c) i = next(i);  -- the sibling scan. *)
RECURSIVE ScanSiblings(_, _, _)
ScanSiblings(dw, i, c) ==
    IF i = 0 \/ DAWG_LETTER(dw, i) = c THEN i
    ELSE ScanSiblings(dw, DAWG_NEXT(dw, i), c)

(***************************************************************************)
(* Found-word hash table.  hash_table is the function from the occupied    *)
(* slots (first byte not NUL) to the words stored there.                   *)
(***************************************************************************)

(* One round of djb2 on an unsigned 32-bit value kept as 16-bit halves     *)
(* <<hi, lo>>: hash = ((hash << 5) + hash) + c, modulo 2^32.               *)
Djb2Step(h, c) ==
    LET lo == h[2] * 33 + c
        hi == h[1] * 33 + (lo \div 65536)
    IN  << hi % 65536, lo % 65536 >>

RECURSIVE Djb2(_, _)
Djb2(h, word) ==
    IF word = << >> THEN h ELSE Djb2(Djb2Step(h, Head(word)), Tail(word))

hash_word(word) ==
    LET h == Djb2(<< DJB2_INIT \div 65536, DJB2_INIT % 65536 >>, word)
    IN  (((h[1] % HASH_SIZE) * (65536 % HASH_SIZE)) + h[2]) % HASH_SIZE

(* An insert that does not probe: it uses the home slot whatever it holds. *)
ProbeHomeOnly(ht, index, word) == index

(* The linear probe of insert: the first slot from index that is empty or  *)
(* holds word.                                                             *)
RECURSIVE Probe(_, _, _)
Probe(ht, index, word) ==
    IF index \notin DOMAIN ht \/ ht[index] = word THEN index
    ELSE Probe(ht, (index + 1) % HASH_SIZE, word)

(* A strcmp that never reports a match: every insert is taken for new. *)
SlotHoldsNever(ht, index, word) == FALSE

(* strcmp(hash_table[index], word) == 0 at the slot the probe stopped on. *)
SlotHolds(ht, index, word) == index \in DOMAIN ht /\ ht[index] = word

(* insert(word): [ok, ht, ui, wc] = (return value, hash_table,             *)
(* used_indices, word_count) after the call.                               *)
insert(ht, ui, wc, word) ==
    LET index == Probe(ht, hash_word(word), word)
    IN  IF SlotHolds(ht, index, word)
        THEN [ok |-> FALSE, ht |-> ht, ui |-> ui, wc |-> wc]
        ELSE [ok |-> TRUE,
              ht |-> (index :> word) @@ ht,
              ui |-> Append(ui, index),
              wc |-> wc + 1]

(* reset_hash_table(): the slots named in used_indices become empty. *)
reset_hash_table_keeps(ht, ui) == ht

reset_hash_table(ht, ui) ==
    LET cleared == {ui[k] : k \in 1..Len(ui)}
    IN  [s \in DOMAIN ht \ cleared |-> ht[s]]

(* A walk that fills word_list from the last used index to the first. *)
walkBackwards(wl, ui) ==
    [k \in 1..(IF Len(wl) > Len(ui) THEN Len(wl) ELSE Len(ui)) |->
        IF k <= Len(ui) THEN ui[Len(ui) + 1 - k] ELSE wl[k]]

(* walk(): word_list[i] = hash_table[used_indices[i]] (a pointer to the    *)
(* slot) for i < used_count; the other entries of word_list are kept.      *)
walk(wl, ui) ==
    [k \in 1..(IF Len(wl) > Len(ui) THEN Len(wl) ELSE Len(ui)) |->
        IF k <= Len(ui) THEN ui[k] ELSE wl[k]]

(* word_list[idx] = NULL; entries never written are NULL (static storage). *)
SetNull(wl, idx) ==
    [k \in 1..(IF Len(wl) > idx + 1 THEN Len(wl) ELSE idx + 1) |->
        IF k = idx + 1 THEN NULL ELSE IF k <= Len(wl) THEN wl[k] ELSE NULL]

(* The caller's view of a returned char**: the strings up to the first     *)
(* NULL pointer, each read from the hash-table slot it points at.          *)
RECURSIVE ReadList(_, _, _)
ReadList(wl, ht, k) ==
    IF k > Len(wl) \/ wl[k] = NULL THEN << >>
    ELSE << (IF wl[k] \in DOMAIN ht THEN ht[wl[k]] ELSE << >>) >>
         \o ReadList(wl, ht, k + 1)

(***************************************************************************)
(* Used-tile bitmask.  `used` (an int_least64_t) is the set of its set     *)
(* bits.  The mask is computed as `0x1 << (y * w + x)` in type int: for a  *)
(* bit index of 31 the int result is INT_MIN, which sign-extends to bits   *)
(* 31..63; for an index of 32 or more the shift is undefined, and a build  *)
(* either takes the count modulo 32 (x86, arm64) or shifts the 1 out       *)
(* (32-bit ARM).                                                           *)
(***************************************************************************)
Builds == {"shl_mod32", "shl_zero"}

Mask(p, b) ==
    IF p < 31 THEN {p}
    ELSE IF p = 31 THEN 31..63
    ELSE IF b = "shl_mod32" THEN {p % 32}
    ELSE {}

(* if (used & mask) *)
TileUsed(used, mask) == used \cap mask # {}

(***************************************************************************)
(* The C library generator behind srandom()/random(), as a deterministic   *)
(* stream: a linear congruential generator whose state is the last value.  *)
(***************************************************************************)
Random(s) == (s * 75 + 74) % 65537

(***************************************************************************)
(* Dice roller                                                             *)
(***************************************************************************)
(* A swap that keeps no temporary: array[j] = array[i]; array[i] = array[j]. *)
SwapNoTemp(array, i, j) == [array EXCEPT ![j + 1] = array[i + 1]]

(* The swap of shuffle_array: the pointers at i and j change places. *)
Swap(array, i, j) ==
    [array EXCEPT ![i + 1] = array[j + 1], ![j + 1] = array[i + 1]]

(* A draw over the whole array whatever the position: random() % n. *)
ShuffleIndexWholeArray(i, n, r) == r % n

(* The index shuffle_array draws for position i: i + (random() % range). *)
ShuffleIndex(i, n, r) == i + (r % (n - i))

(* shuffle_array(array, n) from loop index i on, with generator state s:   *)
(* [array, rng] after the loop.                                            *)
RECURSIVE ShuffleFrom(_, _, _, _)
ShuffleFrom(array, n, i, s) ==
    IF i >= n - 1 THEN [array |-> array, rng |-> s]
    ELSE LET r == Random(s)
         IN  ShuffleFrom(Swap(array, i, ShuffleIndex(i, n, r)), n, i + 1, r)

(* A shuffle that draws once more after its loop. *)
shuffle_array_redraws(array, n, s) ==
    [array |-> ShuffleFrom(array, n, 0, s).array,
     rng |-> Random(ShuffleFrom(array, n, 0, s).rng)]

shuffle_array(array, n, s) == ShuffleFrom(array, n, 0, s)

(* The face loop of make_dice from position i on: g_dice[i] =               *)
(* g_dice_set[i][random() % NUM_FACES].                                    *)
RECURSIVE RollFrom(_, _, _, _, _)
RollFrom(set, dice, n, i, s) ==
    IF i >= n THEN [dice |-> dice, rng |-> s]
    ELSE LET r == Random(s)
         IN  RollFrom(set, Append(dice, set[i + 1][(r % NUM_FACES) + 1]), n, i + 1, r)

(* make_dice(): [set, dice, rng] = (g_dice_set, g_dice, generator state). *)
make_dice(set, width, height, s) ==
    LET len == height * width
        sh == shuffle_array(set, len, s)
        ro == RollFrom(sh.array, << >>, len, 0, sh.rng)
    IN  [set |-> sh.array, dice |-> ro.dice, rng |-> ro.rng]

(***************************************************************************)
(* Prefilter                                                               *)
(***************************************************************************)
IsVowelTile(c) == c \in {65, 69, 73, 79, 85} \/ c = 50 \/ c = 53

(* A count of common letters that leaves out L. *)
IsCommonLetterNoL(c) == c \in {83, 82, 84, 78}

(* c == 'S' || c == 'R' || c == 'T' || c == 'N' || c == 'L' *)
IsCommonLetter(c) == c \in {83, 82, 84, 78, 76}

IsSpecialTile(c) == c >= 49 /\ c <= 53

(* vowel_count, common_letters, special_chars after the counting loop. *)
vowel_count(dice, n) == Cardinality({k \in 1..n : IsVowelTile(dice[k])})

common_letters(dice, n) == Cardinality({k \in 1..n : IsCommonLetter(dice[k])})

special_chars(dice, n) == Cardinality({k \in 1..n : IsSpecialTile(dice[k])})

(* A prefilter whose strictest tier is for short longest words. *)
board_looks_promising_short(dice, width, height, min_words, min_longest) ==
    LET board_size == width * height
        vowels == vowel_count(dice, board_size)
        commons == common_letters(dice, board_size)
        specials == special_chars(dice, board_size)
        vowel_percentage == (vowels * 100) \div board_size
        endings == Cardinality({c \in {83, 68, 71} :
                                  \E k \in 1..board_size : dice[k] = c})
    IN  IF vowel_percentage < 15 \/ vowel_percentage > 65 THEN FALSE
        ELSE IF commons < 1 THEN FALSE
        ELSE IF specials > board_size \div 2 THEN FALSE
        ELSE IF min_words > 100
                /\ (vowel_percentage < 20 \/ vowel_percentage > 55
                    \/ commons < 2) THEN FALSE
        ELSE IF (min_words > 200 \/ min_longest < 10)
                /\ (vowels < 3 \/ commons < 3 \/ endings < 1)
             THEN FALSE
        ELSE TRUE

board_looks_promising(dice, width, height, min_words, min_longest) ==
    LET board_size == width * height
        vowels == vowel_count(dice, board_size)
        commons == common_letters(dice, board_size)
        specials == special_chars(dice, board_size)
        vowel_percentage == (vowels * 100) \div board_size
        endings == Cardinality({c \in {83, 68, 71} :
                                  \E k \in 1..board_size : dice[k] = c})
    IN  IF vowel_percentage < 15 \/ vowel_percentage > 65 THEN FALSE
        ELSE IF commons < 1 THEN FALSE
        ELSE IF specials > board_size \div 2 THEN FALSE
        ELSE IF min_words > 100
                /\ (vowel_percentage < 20 \/ vowel_percentage > 55
                    \/ commons < 2) THEN FALSE
        ELSE IF (min_words > 200 \/ min_longest > 10)
                /\ (vowels < 3 \/ commons < 3 \/ endings < 1)
             THEN FALSE
        ELSE TRUE

(***************************************************************************)
(* find_words: the part of one call before the neighbour loop              *)
(***************************************************************************)

(* g_word[k] = c *)
PutChar(buf, k, c) == [buf EXCEPT ![k + 1] = c]

(* The C string held in a buffer: the bytes before the first NUL. *)
RECURSIVE CStrFrom(_, _)
CStrFrom(buf, k) ==
    IF k > Len(buf) \/ buf[k] = 0 THEN << >>
    ELSE << buf[k] >> \o CStrFrom(buf, k + 1)
CStr(buf) == CStrFrom(buf, 1)

(* The letters a tile code stands for: itself when sought >= 'A', else     *)
(* the pair g_special_dice[sought - '0'].  An index outside 0..5 reads     *)
(* outside the table: undefined behaviour, which yields the two bytes      *)
(* `beyond` that the build happens to have there.                          *)
TileLetters(sought, beyond) ==
    IF sought >= 65 THEN << sought >>
    ELSE IF sought - 48 \in 0..(Len(g_special_dice) - 1)
    THEN g_special_dice[(sought - 48) + 1]
    ELSE beyond

(* The DAWG walk of one tile from sibling list i: the node reached, or 0.  *)
(* A two-letter tile scans for t1, descends to the child list and scans    *)
(* for t2.                                                                 *)
MatchTile(dw, i, sought, beyond) ==
    LET t == TileLetters(sought, beyond)
        i1 == ScanSiblings(dw, i, t[1])
    IN  IF Len(t) = 1 \/ i1 = 0 THEN i1
        ELSE ScanSiblings(dw, DAWG_CHILD(dw, i1), t[2])

(* A scan that reads the letter of node i before it tests i against 0. *)
RECURSIVE ScanReadsUntested(_, _, _)
ScanReadsUntested(dw, i, c) ==
    {i} \cup (IF i = 0 \/ DAWG_LETTER(dw, i) = c THEN {}
              ELSE ScanReadsUntested(dw, DAWG_NEXT(dw, i), c))

(* The indices n at which the sibling scan from i for letter c reads        *)
(* dawg[n]: `i != 0` is tested first, so the scan reads the nodes it        *)
(* passes and the node it stops on, and nothing when i is 0.                *)
RECURSIVE ScanReads(_, _, _)
ScanReads(dw, i, c) ==
    IF i = 0 THEN {}
    ELSE {i} \cup (IF DAWG_LETTER(dw, i) = c THEN {}
                   ELSE ScanReads(dw, DAWG_NEXT(dw, i), c))

(* The indices at which one call find_words(i, ...) on the tile `sought`    *)
(* reads dawg[]: the scans, the child of the t1 node of a two-letter tile,  *)
(* and the end-of-word flag and child of the node the scans ended on.       *)
NodesRead(dw, i, sought, beyond) ==
    LET t == TileLetters(sought, beyond)
        i1 == ScanSiblings(dw, i, t[1])
        node == MatchTile(dw, i, sought, beyond)
    IN  ScanReads(dw, i, t[1])
        \cup (IF Len(t) = 2 /\ i1 # 0
              THEN {i1} \cup ScanReads(dw, DAWG_CHILD(dw, i1), t[2]) ELSE {})
        \cup (IF node # 0 THEN {node} ELSE {})

(* g_word after the tile's letters are appended at word_len. *)
AppendTile(buf, word_len, sought, beyond) ==
    LET t == TileLetters(sought, beyond)
    IN  IF Len(t) = 1 THEN PutChar(buf, word_len, t[1])
        ELSE PutChar(PutChar(buf, word_len, t[1]), word_len + 1, t[2])

(* A score lookup that reads the entry of the next length. *)
ScoreLookupNextLength(score_counts, word_len) == score_counts[word_len + 2]

(* g_score_counts[word_len] *)
ScoreLookup(score_counts, word_len) == score_counts[word_len + 1]

(* A word-count test that trips one word late. *)
TooManyWordsOneLate(num_words, max_words) == num_words - 1 > max_words

(* if (g_num_words > g_max_words) *)
TooManyWords(num_words, max_words) == num_words > max_words

(* if (g_score > g_max_score) *)
ScoreTooHigh(score, max_score) == score > max_score

(* if (g_longest > g_max_longest) *)
TooLong(longest, max_longest) == longest > max_longest

(* max == -1 ? INT32_MAX : max *)
MaxOrUnbounded(max) == IF max = -1 THEN INT32_MAX ELSE max

(* The in-bounds test of the neighbour loop. *)
InBounds(ny, nx, max_y, max_x) == ny >= 0 /\ ny <= max_y /\ nx >= 0 /\ nx <= max_x

(* The first direction d' >= d whose neighbour of (y, x) is on the board,  *)
(* or 8 when the loop is over.                                             *)
RECURSIVE NextDir(_, _, _, _, _)
NextDir(d, y, x, max_y, max_x) ==
    IF d >= 8 THEN 8
    ELSE IF InBounds(y + g_deltas[d + 1][1], x + g_deltas[d + 1][2], max_y, max_x)
         THEN d
         ELSE NextDir(d + 1, y, x, max_y, max_x)

(* Final checks that leave out the minimum on the longest word. *)
FinalChecksNoMinLongest(num_words, score, longest, min_words, min_score, min_longest, max_longest) ==
    /\ ~(num_words < min_words)
    /\ ~(score < min_score)
    /\ ~(longest > max_longest)

(* The post-search checks of find_all_words. *)
FinalChecks(num_words, score, longest, min_words, min_score, min_longest, max_longest) ==
    /\ ~(num_words < min_words)
    /\ ~(score < min_score)
    /\ ~(longest < min_longest)
    /\ ~(longest > max_longest)

(***************************************************************************)
(* Inputs: the dictionary, the dice sets, the score table, the boards      *)
(***************************************************************************)

(* The packed words of a dictionary file after its count word: the         *)
(* sentinel, then the nodes.  It holds AT TA ATE EAT ETA TEA SAT SEA SET   *)
(* TAS TAT EATS EAST SEAT TEAS SATE ETAS EATER ASTER QUEST TEASE.          *)
Dawg1 == <<0, 10305, 19525, 23633, 27731, 34132, 850, 6469, 7508, 837, 8275, 10068, 852, 6213, 851, 12371, 14164, 851, 18241, 15425, 18772, 12627, 21829, 22869, 10068, 12865, 852, 24641, 25925, 595, 852, 10067, 32577, 30273, 33093>>

(* int scores[] = {0, 0, 0, 1, 2}, five entries. *)
Scores5 == <<0, 0, 0, 1, 2>>

(* What a build may hold behind a score table: 0, or the value of the      *)
(* table's last entry.                                                     *)
PastScores == {0, 2}

(* The ints the search reads at g_score_counts[0..MAX_WORD_LEN]: the       *)
(* caller's table and, where word_len is past its end, memory outside the  *)
(* array -- undefined behaviour, which yields what the build has there.    *)
ScoreMemory(score_counts, beyond) ==
    [k \in 1..(MAX_WORD_LEN + 1) |->
        IF k <= Len(score_counts) THEN score_counts[k] ELSE beyond]

(* int scores[] = {0, 0, 0, 1, 1, 2, 3, 5, 11, ...}, seventeen entries. *)
Scores17 == <<0, 0, 0, 1, 1, 2, 3, 5, 11, 11, 11, 11, 11, 11, 11, 11, 11>>

(* A 2x2 dice set: "AAAEEE", "TTTSSS", "EEAAS4", "TAAE11". *)
DiceSet2x2 == << <<65, 65, 65, 69, 69, 69>>,
               <<84, 84, 84, 83, 83, 83>>,
               <<69, 69, 65, 65, 83, 52>>,
               <<84, 65, 65, 69, 49, 49>> >>

(* A dictionary file: whether it can be opened, its complete 32-bit words  *)
(* and the number of bytes (0..3) after the last complete word.            *)
DawgFile(present, words, tail) == [present |-> present, words |-> words, tail |-> tail]

(* words.dat: the element count, then that many packed words. *)
WordsDat == DawgFile(TRUE, << Len(Dawg1) >> \o Dawg1, 0)

(* The same words under a count that claims five more. *)
OverstatedDat == DawgFile(TRUE, << Len(Dawg1) + 5 >> \o Dawg1, 0)

(* A file of two bytes, and a path that cannot be opened. *)
TwoBytesDat == DawgFile(TRUE, << >>, 2)

MissingDat == DawgFile(FALSE, << >>, 0)

DawgFiles == { WordsDat, OverstatedDat, TwoBytesDat, MissingDat }

(* A dictionary of every string of one to StorageLevels letters A..Z: one  *)
(* sibling list of 26 nodes per length, each node ending a word and        *)
(* pointing at the list of the next length, the last list at none.         *)
StorageLevels == 5

StorageDawg ==
    [k \in 1..(26 * StorageLevels + 1) |->
        IF k = 1 THEN 0
        ELSE LET i == k - 1
                 level == ((i - 1) \div 26) + 1
                 letter == 65 + ((i - 1) % 26)
                 child == IF level < StorageLevels THEN 26 * level + 1 ELSE 0
             IN  child * (2 ^ CHILD_BIT_SHIFT) + EOW_BIT_MASK
                    + (IF letter = 90 THEN EOL_BIT_MASK ELSE 0) + letter]

StorageDat == DawgFile(TRUE, << Len(StorageDawg) >> \o StorageDawg, 0)

(* read_dawg(path): the FATAL2 it ends in, or the array dawg points to,    *)
(* which is the whole file from its second word on.  nelems is read and    *)
(* not used.                                                               *)
read_dawg(f) ==
    IF ~f.present THEN [ok |-> FALSE, msg |-> "Cannot open", dawg |-> << >>]
    ELSE IF Len(f.words) < 1 THEN [ok |-> FALSE, msg |-> "Cannot get size of", dawg |-> << >>]
    ELSE [ok |-> TRUE, msg |-> "", dawg |-> Tail(f.words)]

(* A 7x5 board, rows "TLLOLLO" "LELLOLL" "OLALLOL" "LOLSLLA" "LLOLELT":    *)
(* TEASE lies on the diagonal from tile 0 to tile 32, and tile 34 (T) has  *)
(* the A of tile 27 as its only neighbour of the dictionary's letters.     *)
Board7x5 == <<84, 76, 76, 79, 76, 76, 79, 76, 69, 76, 76, 79, 76, 76, 79, 76, 65, 76, 76, 79, 76, 76, 79, 76, 83, 76, 76, 65, 76, 76, 79, 76, 69, 76, 84>>

(* A 7x5 dice set of dice with six equal faces, in the order that the      *)
(* shuffle of seed 0 turns into Board7x5.                                  *)
Faces(c) == << c, c, c, c, c, c >>
DiceSet7x5 ==
    LET order == <<76, 76, 76, 69, 84, 76, 76, 69, 79, 76, 76, 79, 76, 79, 65, 76, 79, 79, 79, 76, 76, 76, 76, 79, 76, 76, 84, 76, 76, 76, 76, 65, 76, 76, 83>>
    IN  [k \in 1..35 |-> Faces(order[k])]

(* A 7x5 board of tiles L but for E, A, T on tiles 8, 16, 24 and the tile   *)
(* '4' (ER) on tile 32: EATER lies on the diagonal from tile 8 to tile 32. *)
Board7x5ER ==
    [k \in 1..35 |-> CASE k = 9 -> 69 [] k = 17 -> 65 [] k = 25 -> 84
                        [] k = 33 -> 52 [] OTHER -> 76]

(* A 3x3 dice set for boards of five vowels and four common consonants:    *)
(* "OOOOOO" three times, "IIIIII", "LLLLLL" and "NNNNNN" twice each.       *)
DiceSet3x3 ==
    << Faces(79), Faces(79), Faces(79), Faces(73), Faces(73),
       Faces(76), Faces(76), Faces(78), Faces(78) >>

(* A 23x1 board of fifteen O and eight L. *)
Board23x1 == [k \in 1..23 |-> IF k <= 15 THEN 79 ELSE 76]

(* A 37x1 board, "TEA" and 34 times "L", and a set of 37 dice. *)
Board37x1 == [k \in 1..37 |-> IF k = 1 THEN 84 ELSE IF k = 2 THEN 69 ELSE IF k = 3 THEN 65 ELSE 76]

DiceSet37x1 == [k \in 1..37 |-> Faces(76)]

(* A 2x2 dice set with a die of six faces '9': "999999", "TTTTTT",         *)
(* "EEEEEE", "AAAAAA".                                                     *)
DiceSetNine == << Faces(57), Faces(84), Faces(69), Faces(65) >>

(* The set holds a face that find_words takes for a special tile and that  *)
(* indexes g_special_dice outside 0..5.                                    *)
HasStrayFace(set) ==
    \E k \in 1..Len(set) : \E f \in 1..Len(set[k]) :
        set[k][f] < 65 /\ set[k][f] - 48 \notin 0..(Len(g_special_dice) - 1)

(* What a build may hold outside the table: two zero bytes, or "AT". *)
StrayPairs == { << 0, 0 >>, << 65, 84 >> }

Cons(mnw, mxw, mns, mxs, mnl, mxl, legal) ==
    [min_words |-> mnw, max_words |-> mxw, min_score |-> mns, max_score |-> mxs,
     min_longest |-> mnl, max_longest |-> mxl, min_legal |-> legal]

(* The constraint records tried with the 2x2 dice set. *)
Constraints2x2 ==
    { Cons(1, -1, 1, -1, 3, -1, 3),
      Cons(0, -1, 0, -1, 0, -1, 2),
      Cons(0, 2, 0, -1, 0, -1, 3),
      Cons(0, 0, 0, -1, 0, -1, 3),
      Cons(0, -1, 0, 2, 0, -1, 3),
      Cons(0, -1, 0, -1, 0, 3, 3),
      Cons(0, -1, 0, -1, 0, 2, 2),
      Cons(5, -1, 0, -1, 0, -1, 3),
      Cons(0, -1, 3, -1, 0, -1, 3),
      Cons(0, -1, 0, -1, 4, -1, 3),
      Cons(2, 6, 1, 6, 3, 4, 2) }

GetCall(set, w, h, c, tries, seed) ==
    [kind |-> "get_words", set |-> set, score_counts |-> Scores17,
     width |-> w, height |-> h, cons |-> c, max_tries |-> tries, random_seed |-> seed]

RestoreCall(w, h, dice) ==
    [kind |-> "restore_game", score_counts |-> Scores17,
     width |-> w, height |-> h, dice |-> dice]

GetCalls ==
    { GetCall(DiceSet2x2, 2, 2, c, t, sd) :
        c \in Constraints2x2, t \in 0..MaxTries, sd \in 0..MaxSeed }
    \cup { GetCall(DiceSet7x5, 7, 5, Cons(1, -1, 0, -1, 5, -1, 3), 1, 0),
           GetCall(DiceSet2x2, 2, 2, Cons(0, -1, 0, -1, 0, -1, 3), -1, 0),
           GetCall(DiceSet37x1, 37, 1, Cons(0, -1, 0, -1, 0, -1, 3), 1, 0),
           GetCall(DiceSetNine, 2, 2, Cons(0, -1, 0, -1, 0, -1, 2), 1, 0),
           GetCall(DiceSet3x3, 3, 3, Cons(101, -1, 0, -1, 0, -1, 3), 1, 0) }

(* Layouts given to restore_game: "SAAT", "EAT4", "1EST", "0AT0" and       *)
(* "ETAS" as 2x2, "TEA" as 3x1 and as 1x3, the two 7x5 boards, the 23x1    *)
(* board and the 37x1 board.                                               *)
RestoreCalls ==
    { RestoreCall(2, 2, <<83, 65, 65, 84>>),
      RestoreCall(2, 2, <<69, 65, 84, 52>>),
      RestoreCall(2, 2, <<49, 69, 83, 84>>),
      RestoreCall(2, 2, <<48, 65, 84, 48>>),
      RestoreCall(2, 2, <<69, 84, 65, 83>>),
      [RestoreCall(2, 2, <<69, 65, 84, 52>>) EXCEPT !.score_counts = Scores5],
      RestoreCall(3, 1, <<84, 69, 65>>),
      RestoreCall(1, 3, <<84, 69, 65>>),
      RestoreCall(7, 5, Board7x5),
      RestoreCall(7, 5, Board7x5ER),
      RestoreCall(23, 1, Board23x1),
      RestoreCall(37, 1, Board37x1) }

(* A 15x2 layout, rows "ABCDEFGHIJKLMNO" and "PQRSTUVWXYZABCD". *)
StorageBoard == [k \in 1..30 |-> 65 + ((k - 1) % 26)]

StorageCall == RestoreCall(15, 2, StorageBoard)

(***************************************************************************)
(* State                                                                   *)
(***************************************************************************)
VARIABLES
    dawg,               \* the loaded dictionary (const int32_t *dawg)
    build,              \* what the build makes of the undefined shift
    stray,              \* the bytes the build has outside g_special_dice
    past,               \* the int the build has behind the caller's score table
    file,               \* the dictionary file read_dawg is given
    err_msg,            \* the message of the FATAL2 that ended the process
    g_board_width, g_board_height, g_max_x, g_max_y,
    g_score_counts, g_word, g_board_failed,
    g_dice_set, g_dice,
    g_min_words, g_max_words, g_min_score, g_max_score,
    g_min_longest, g_max_longest, g_min_legal,
    g_num_words, g_longest, g_score,
    hash_table, used_indices, word_count, word_list,
    rng,                \* state of the random() generator
    pc,                 \* where the running call is
    stack,              \* the frames of find_words, innermost last
    sy, sx,             \* y and x of the loops of find_all_words
    count,              \* the local count of fill_board
    call,               \* the arguments of the running (or last) call
    call1,              \* the arguments of the first call of the process
    phase,              \* 1 during the first call, 2 during the second
    ret,                \* what the last call returned to its caller
    ret1,               \* what the first call returned
    other,              \* the locals of the thread that is not running
    alone,              \* no other thread ran during the running thread's call
    rolled,             \* the boards rolled by the running get_words
    inserted,           \* the words the table test inserted since its last reset
    last,               \* the last operation of the table test and its result
    ops,                \* the number of operations the table test has made
    draws,              \* the indices j the shuffle test has drawn
    visit               \* what the last call of find_words read of the DAWG

boardVars == << g_board_width, g_board_height, g_max_x, g_max_y, g_score_counts >>
consVars == << g_min_words, g_max_words, g_min_score, g_max_score,
               g_min_longest, g_max_longest, g_min_legal >>
counterVars == << g_num_words, g_longest, g_score, g_board_failed >>
tableVars == << hash_table, used_indices, word_count >>
callerVars == << call, call1, phase, ret1, other, alone >>
envVars == << dawg, build, stray, past, file, err_msg >>
testVars == << inserted, last, ops, draws >>

vars == << envVars, testVars, boardVars, consVars, counterVars, tableVars, callerVars,
           g_word, g_dice_set, g_dice, word_list, rng, pc, stack, sy, sx,
           count, ret, rolled, visit >>

(* No call of find_words yet. *)
NoVisit == [y |-> 0, x |-> 0, depth |-> 0, reads |-> {}, node |-> -1]

(* The program that exercises the table alone: it calls insert and         *)
(* reset_hash_table directly, without a dictionary or a board.             *)
TableTest == [kind |-> "table_test"]

(* The words it inserts: "CAT" and a 16-letter word hash to slot 6821,     *)
(* "CAU" to 6822, "AGGV" and "AUZZ" to the last slot, 15876.               *)
TableWords ==
    { << 67, 65, 84 >>,
      << 79, 72, 65, 68, 66, 75, 79, 79, 66, 89, 86, 80, 82, 90, 65, 85 >>,
      << 67, 65, 85 >>,
      << 65, 71, 71, 86 >>,
      << 65, 85, 90, 90 >> }

NoOp == [op |-> "none", word |-> << >>, ok |-> FALSE, novel |-> FALSE]

(* The program that exercises shuffle_array alone, on arrays of n distinct  *)
(* dice "AAAAAA", "BBBBBB", ...                                             *)
ShuffleTests ==
    { [kind |-> "shuffle_test", n |-> n, set |-> [k \in 1..n |-> Faces(64 + k)]] :
        n \in 1..MaxDice }

(* The values random() returns in the shuffle test: enough for every        *)
(* remainder modulo every range, each more than once.                       *)
RandomValues == 0..(2 * MaxDice - 1)

(* What the caller holds after a call: the list (or NULL) and its two out  *)
(* variables, *dice_simple and *num_tries.  Before the first call the out  *)
(* variables are unwritten: an empty layout and 0, which no successful     *)
(* get_words writes.  A NULL return and restore_game write neither.        *)
NullRet == [null |-> TRUE, words |-> << >>, layout |-> << >>, tries |-> 0]

(* The locals of a thread: its position, the frames of its find_words      *)
(* calls, the loop variables of find_all_words, its arguments and what it  *)
(* was returned.  NoThread: the process has one thread.                    *)
NoThread == [pc |-> "none", stack |-> << >>, sy |-> 0, sx |-> 0,
             call |-> [kind |-> "none"], ret |-> NullRet, alone |-> TRUE]

ZeroBuffer == [k \in 1..(MAX_WORD_LEN + 1) |-> 0]

Init ==
    /\ dawg = << >>
    /\ err_msg = ""
    /\ build \in Builds
    /\ call \in GetCalls \cup RestoreCalls \cup {TableTest} \cup ShuffleTests
    /\ past \in IF call.kind \in {"get_words", "restore_game"}
                  /\ Len(call.score_counts) <= MAX_WORD_LEN
               THEN PastScores ELSE {0}
    /\ stray \in IF call.kind = "get_words" /\ HasStrayFace(call.set)
                THEN StrayPairs ELSE {<< 0, 0 >>}
    /\ file \in IF call.kind = "restore_game" THEN DawgFiles ELSE {WordsDat}
    /\ call1 = call
    /\ phase = 1
    /\ pc = CASE call.kind = "table_test" -> "table"
              [] call.kind = "shuffle_test" -> "shuffle"
              [] OTHER -> "load"
    /\ inserted = {}
    /\ last = NoOp
    /\ ops = 0
    /\ draws = << >>
    /\ visit = NoVisit
    /\ g_board_width = 0 /\ g_board_height = 0 /\ g_max_x = 0 /\ g_max_y = 0
    /\ g_score_counts = << >>
    /\ g_word = ZeroBuffer
    /\ g_board_failed = FALSE
    /\ g_dice_set = IF call.kind = "shuffle_test" THEN call.set ELSE << >>
    /\ g_dice = << >>
    /\ g_min_words = 0 /\ g_max_words = 0 /\ g_min_score = 0 /\ g_max_score = 0
    /\ g_min_longest = 0 /\ g_max_longest = 0 /\ g_min_legal = 0
    /\ g_num_words = 0 /\ g_longest = 0 /\ g_score = 0
    /\ hash_table = << >>
    /\ used_indices = << >>
    /\ word_count = 0
    /\ word_list = << >>
    /\ rng = 1
    /\ stack = << >>
    /\ sy = 0 /\ sx = 0
    /\ count = 0
    /\ ret = NullRet
    /\ ret1 = NullRet
    /\ other = NoThread
    /\ alone = TRUE
    /\ rolled = << >>

(***************************************************************************)
(* Public entry points                                                     *)
(***************************************************************************)

(* The caller loads the dictionary before its first call. *)
ReadDawg ==
    /\ pc = "load"
    /\ LET rd == read_dawg(file)
       IN  IF rd.ok
           THEN /\ dawg' = rd.dawg
                /\ pc' = "start"
                /\ err_msg' = err_msg
           ELSE /\ err_msg' = rd.msg
                /\ pc' = "fatal"
                /\ dawg' = dawg
    /\ UNCHANGED << build, stray, past, file, testVars, boardVars, consVars, counterVars,
                    tableVars, callerVars, g_word, g_dice_set, g_dice, word_list, rng, stack,
                    sy, sx, count, ret, rolled, visit >>

(* The table test calls insert(word). *)
TableInsert ==
    /\ pc = "table"
    /\ ops < MaxOps
    /\ \E word \in TableWords :
          LET ins == insert(hash_table, used_indices, word_count, word)
          IN  /\ hash_table' = ins.ht
              /\ used_indices' = ins.ui
              /\ word_count' = ins.wc
              /\ last' = [op |-> "insert", word |-> word, ok |-> ins.ok,
                          novel |-> word \notin inserted]
              /\ inserted' = inserted \cup {word}
    /\ ops' = ops + 1
    /\ UNCHANGED << envVars, boardVars, consVars, counterVars, callerVars, g_word,
                    g_dice_set, g_dice, word_list, rng, pc, stack, sy, sx, count,
                    ret, rolled, draws, visit >>

(* The table test calls reset_hash_table(). *)
TableReset ==
    /\ pc = "table"
    /\ ops < MaxOps
    /\ hash_table' = reset_hash_table(hash_table, used_indices)
    /\ used_indices' = << >>
    /\ word_count' = 0
    /\ last' = [NoOp EXCEPT !.op = "reset"]
    /\ inserted' = {}
    /\ ops' = ops + 1
    /\ UNCHANGED << envVars, boardVars, consVars, counterVars, callerVars, g_word,
                    g_dice_set, g_dice, word_list, rng, pc, stack, sy, sx, count,
                    ret, rolled, draws, visit >>

(* One round of the loop of shuffle_array(array, n) in the shuffle test:    *)
(* random() returns r, the elements at i and j = i + r % (n - i) change    *)
(* places.                                                                 *)
ShuffleStep ==
    /\ pc = "shuffle"
    /\ count < call.n - 1
    /\ \E r \in RandomValues :
          LET j == ShuffleIndex(count, call.n, r)
          IN  /\ g_dice_set' = Swap(g_dice_set, count, j)
              /\ draws' = Append(draws, j)
    /\ count' = count + 1
    /\ UNCHANGED << envVars, boardVars, consVars, counterVars, tableVars, callerVars,
                    inserted, last, ops, g_word, g_dice, word_list, rng, pc, stack,
                    sy, sx, ret, rolled, visit >>

(* A generator that get_words does not reseed. *)
SrandomKeepsState(seed) == rng

(* srandom(random_seed): the generator state after seeding. *)
Srandom(seed) == seed % 65537

(* get_words up to its call of fill_board. *)
GetWords ==
    /\ pc = "start"
    /\ call.kind = "get_words"
    /\ rng' = Srandom(call.random_seed)
    /\ IF call.width * call.height > 36
       THEN /\ pc' = "fatal"
            /\ err_msg' = "Oops"
            /\ UNCHANGED << boardVars, consVars, g_dice_set, count, rolled >>
       ELSE /\ pc' = "fill_board"
            /\ err_msg' = err_msg
            /\ g_dice_set' = call.set
            /\ g_score_counts' = call.score_counts
            /\ g_board_width' = call.width
            /\ g_board_height' = call.height
            /\ g_max_x' = call.width - 1
            /\ g_max_y' = call.height - 1
            /\ g_min_words' = call.cons.min_words
            /\ g_max_words' = MaxOrUnbounded(call.cons.max_words)
            /\ g_min_score' = call.cons.min_score
            /\ g_max_score' = MaxOrUnbounded(call.cons.max_score)
            /\ g_min_longest' = call.cons.min_longest
            /\ g_max_longest' = MaxOrUnbounded(call.cons.max_longest)
            /\ g_min_legal' = call.cons.min_legal
            /\ count' = 0
            /\ rolled' = << >>
    /\ UNCHANGED << dawg, build, stray, past, file, testVars, counterVars, tableVars,
                    callerVars, g_word, g_dice, word_list, stack, sy, sx, ret, visit >>

(* strcpy(g_dice, dice) for a layout of len tiles stores len + 1 bytes in  *)
(* the 37 bytes of g_dice.  A longer layout overruns the array: undefined  *)
(* behaviour, which a checking strcpy traps before it copies and which     *)
(* otherwise goes unnoticed, the bytes landing behind g_dice where the     *)
(* search reads them back.                                                 *)
StrcpyOutcomes(len) ==
    IF len + 1 > DICE_SIZE THEN {"find_all_words", "trapped"} ELSE {"find_all_words"}

(* restore_game up to its call of find_all_words. *)
RestoreGame ==
    /\ pc = "start"
    /\ call.kind = "restore_game"
    /\ g_score_counts' = call.score_counts
    /\ g_board_width' = call.width
    /\ g_board_height' = call.height
    /\ g_max_x' = call.width - 1
    /\ g_max_y' = call.height - 1
    /\ g_min_words' = 0
    /\ g_max_words' = INT32_MAX
    /\ g_min_score' = 0
    /\ g_max_score' = INT32_MAX
    /\ g_min_longest' = 0
    /\ g_max_longest' = INT32_MAX
    /\ g_min_legal' = 0
    /\ \E outcome \in StrcpyOutcomes(Len(call.dice)) :
          /\ pc' = outcome
          /\ g_dice' = IF outcome = "trapped" THEN g_dice ELSE call.dice
    /\ UNCHANGED << envVars, testVars, counterVars, tableVars, callerVars, g_word, g_dice_set,
                    word_list, rng, stack, sy, sx, count, ret, rolled, visit >>

(***************************************************************************)
(* fill_board                                                              *)
(***************************************************************************)

(* A loop test that gives up one roll early. *)
MoreTriesOneShort(cnt, max_tries) == cnt + 1 < max_tries

(* An attempt count that starts at 0. *)
AttemptCountFromZero(cnt) == cnt - 1

(* return count: fill_board's count after the count++ of the loop test. *)
AttemptCount(cnt) == cnt

(* while (count++ < max_tries) *)
MoreTries(cnt, max_tries) == cnt < max_tries

(* The loop test of fill_board and, inside the loop, make_dice(); when the *)
(* budget is spent fill_board returns -1 and get_words returns NULL.       *)
FillBoard ==
    /\ pc = "fill_board"
    /\ count' = count + 1
    /\ IF MoreTries(count, call.max_tries)
       THEN LET md == make_dice(g_dice_set, g_board_width, g_board_height, rng)
            IN  /\ g_dice_set' = md.set
                /\ g_dice' = md.dice
                /\ rng' = md.rng
                /\ rolled' = Append(rolled, [board |-> md.dice, searched |-> FALSE,
                                             accepted |-> FALSE])
                /\ pc' = "prefilter"
                /\ ret' = ret
       ELSE /\ pc' = "returned"
            /\ ret' = [ret EXCEPT !.null = TRUE, !.words = << >>]
            /\ UNCHANGED << g_dice_set, g_dice, rng, rolled >>
    /\ UNCHANGED << envVars, testVars, boardVars, consVars, counterVars, tableVars, callerVars,
                    g_word, word_list, stack, sy, sx, visit >>

(* if (!board_looks_promising()) continue; *)
Prefilter ==
    /\ pc = "prefilter"
    /\ pc' = IF board_looks_promising(g_dice, g_board_width, g_board_height,
                                      g_min_words, g_min_longest)
             THEN "find_all_words" ELSE "fill_board"
    /\ UNCHANGED << envVars, testVars, boardVars, consVars, counterVars, tableVars, callerVars,
                    g_word, g_dice_set, g_dice, word_list, rng, stack, sy, sx,
                    count, ret, rolled, visit >>

(***************************************************************************)
(* find_all_words and find_words                                           *)
(***************************************************************************)

(* The head of find_all_words: reset the hash table, the counters and the  *)
(* fail flag.                                                              *)
FindAllWordsReset ==
    /\ pc = "find_all_words"
    /\ hash_table' = reset_hash_table(hash_table, used_indices)
    /\ used_indices' = << >>
    /\ word_count' = 0
    /\ g_num_words' = 0
    /\ g_longest' = 0
    /\ g_score' = 0
    /\ g_board_failed' = FALSE
    /\ sy' = 0 /\ sx' = 0
    /\ stack' = << >>
    /\ pc' = "search_start"
    /\ rolled' = IF call.kind = "get_words"
                 THEN [rolled EXCEPT ![Len(rolled)].searched = TRUE]
                 ELSE rolled
    /\ UNCHANGED << envVars, testVars, boardVars, consVars, callerVars, g_word, g_dice_set,
                    g_dice, word_list, rng, count, ret, visit >>

(* The acceptance block for a novel word of length word_len: the counters  *)
(* and the fail flag after it, with its early returns.                     *)
Accept(num_words, score, longest, word_len, score_counts, max_words, max_score, max_longest) ==
    LET nw == num_words + 1
        sc == score + ScoreLookup(score_counts, word_len)
        lg == IF word_len > longest THEN word_len ELSE longest
    IN  IF TooManyWords(nw, max_words)
        THEN [num_words |-> nw, score |-> score, longest |-> longest, failed |-> TRUE]
        ELSE IF ScoreTooHigh(sc, max_score)
        THEN [num_words |-> nw, score |-> sc, longest |-> longest, failed |-> TRUE]
        ELSE IF word_len > longest /\ TooLong(lg, max_longest)
        THEN [num_words |-> nw, score |-> sc, longest |-> lg, failed |-> TRUE]
        ELSE [num_words |-> nw, score |-> sc, longest |-> lg, failed |-> FALSE]

(* A candidate test without the length test. *)
IsCandidateAnyLength(dw, node, word_len, min_legal) == DAWG_EOW(dw, node)

(* if (dawg[i] & EOW_BIT_MASK && word_len >= g_min_legal) *)
IsCandidate(dw, node, word_len, min_legal) ==
    DAWG_EOW(dw, node) /\ word_len >= min_legal

(* The start position after (y, x) in the loops of find_all_words. *)
NextStart(y, x, width) ==
    IF x + 1 < width THEN << y, x + 1 >> ELSE << y + 1, 0 >>

(* A call of find_words returned true to the frames `rest` (to             *)
(* find_all_words when there are none).                                    *)
ReturnTrue(rest) ==
    /\ stack' = rest
    /\ IF rest = << >>
       THEN /\ pc' = "search_start"
            /\ sy' = NextStart(sy, sx, g_board_width)[1]
            /\ sx' = NextStart(sy, sx, g_board_width)[2]
       ELSE /\ pc' = "search"
            /\ UNCHANGED << sy, sx >>

(* A caller that ignores the false its callee returned and goes on. *)
ReturnFalseIgnored(rest) == ReturnTrue(rest)

(* A call of find_words returned false: the callers unwind. *)
ReturnFalse(rest) ==
    /\ stack' = rest
    /\ pc' = "unwind"
    /\ UNCHANGED << sy, sx >>

(* The call reached its neighbour loop: it becomes the innermost frame. *)
EnterLoop(rest, frame) ==
    /\ stack' = Append(rest, frame)
    /\ pc' = "search"
    /\ UNCHANGED << sy, sx >>

(* used_indices[used_count++] = index stays inside int                     *)
(* used_indices[MAX_WORDS + 1].                                            *)
HasRoom(ui) == Len(ui) < MAX_WORDS + 1

(* insert stored past the end of used_indices: undefined behaviour; the    *)
(* model follows the process no further.                                   *)
Overrun(rest) ==
    /\ stack' = rest
    /\ pc' = "overrun"
    /\ UNCHANGED << sy, sx >>

(* One call find_words(i, word_len, y, x, used) from its entry to its      *)
(* first return or to its neighbour loop; `rest` are the callers' frames.  *)
CallFindWords(i, word_len, y, x, used, rest) ==
    LET pos == y * g_board_width + x
        mask == Mask(pos, build)
        sought == g_dice[pos + 1]
        node == MatchTile(dawg, i, sought, stray)
        len2 == word_len + Len(TileLetters(sought, stray))
        buf == AppendTile(g_word, word_len, sought, stray)
        frame == [i |-> DAWG_CHILD(dawg, node), word_len |-> len2, y |-> y, x |-> x,
                  used |-> used \cup mask, d |-> 0]
        scanned == ~g_board_failed /\ ~TileUsed(used, mask)
    IN  /\ visit' = [y |-> y, x |-> x, depth |-> Len(rest),
                     reads |-> IF scanned THEN NodesRead(dawg, i, sought, stray) ELSE {},
                     node |-> IF scanned THEN node ELSE -1]
        /\ IF g_board_failed
           THEN /\ ReturnFalse(rest)
                /\ UNCHANGED << g_word, counterVars, tableVars >>
           ELSE IF TileUsed(used, mask) \/ node = 0
           THEN /\ ReturnTrue(rest)
                /\ UNCHANGED << g_word, counterVars, tableVars >>
           ELSE IF ~IsCandidate(dawg, node, len2, g_min_legal)
           THEN /\ g_word' = buf
                /\ EnterLoop(rest, frame)
                /\ UNCHANGED << counterVars, tableVars >>
           ELSE LET term == PutChar(buf, len2, 0)
                    ins == insert(hash_table, used_indices, word_count, CStr(term))
                    acc == Accept(g_num_words, g_score, g_longest, len2,
                                  ScoreMemory(g_score_counts, past),
                                  g_max_words, g_max_score, g_max_longest)
                IN  IF ins.ok /\ ~HasRoom(used_indices)
                    THEN /\ g_word' = term
                         /\ Overrun(rest)
                         /\ UNCHANGED << counterVars, tableVars >>
                    ELSE /\ g_word' = term
                         /\ hash_table' = ins.ht
                         /\ used_indices' = ins.ui
                         /\ word_count' = ins.wc
                         /\ IF ~ins.ok
                            THEN /\ EnterLoop(rest, frame)
                                 /\ UNCHANGED counterVars
                            ELSE /\ g_num_words' = acc.num_words
                                 /\ g_score' = acc.score
                                 /\ g_longest' = acc.longest
                                 /\ g_board_failed' = acc.failed
                                 /\ IF acc.failed THEN ReturnFalse(rest)
                                                  ELSE EnterLoop(rest, frame)

searchFrame == << envVars, testVars, boardVars, consVars, callerVars, g_dice_set, g_dice,
                  word_list, rng, count, ret, rolled >>

(* find_all_words calls find_words(1, 0, y, x, 0x0) for the next start. *)
SearchStart ==
    /\ pc = "search_start"
    /\ sy < g_board_height
    /\ CallFindWords(1, 0, sy, sx, {}, << >>)
    /\ UNCHANGED searchFrame

(* The neighbour loop of the innermost frame reaches an on-board           *)
(* neighbour and calls find_words(child, word_len, ny, nx, used).          *)
FindWordsNeighbour ==
    /\ pc = "search"
    /\ stack # << >>
    /\ LET top == stack[Len(stack)]
           d == NextDir(top.d, top.y, top.x, g_max_y, g_max_x)
       IN  /\ d < 8
           /\ CallFindWords(top.i, top.word_len,
                            top.y + g_deltas[d + 1][1], top.x + g_deltas[d + 1][2],
                            top.used,
                            [stack EXCEPT ![Len(stack)].d = d + 1])
    /\ UNCHANGED searchFrame

(* The neighbour loop of the innermost frame is over: it returns true. *)
FindWordsReturn ==
    /\ pc = "search"
    /\ stack # << >>
    /\ LET top == stack[Len(stack)]
       IN  NextDir(top.d, top.y, top.x, g_max_y, g_max_x) = 8
    /\ ReturnTrue(SubSeq(stack, 1, Len(stack) - 1))
    /\ UNCHANGED << searchFrame, g_word, counterVars, tableVars, visit >>

(* A frame whose callee returned false returns false itself. *)
Unwind ==
    /\ pc = "unwind"
    /\ stack # << >>
    /\ stack' = SubSeq(stack, 1, Len(stack) - 1)
    /\ UNCHANGED << searchFrame, g_word, counterVars, tableVars, pc, sy, sx, visit >>

(* find_all_words returned `verdict`: restore_game ignores it, fill_board  *)
(* returns count on true and loops on false.                               *)
AfterFindAllWords(verdict) ==
    /\ pc' = IF call.kind = "restore_game" THEN "rg_tail"
             ELSE IF verdict THEN "gw_tail" ELSE "fill_board"
    /\ rolled' = IF call.kind = "get_words"
                 THEN [rolled EXCEPT ![Len(rolled)].accepted = verdict]
                 ELSE rolled
    /\ UNCHANGED << envVars, testVars, boardVars, consVars, counterVars, tableVars, callerVars,
                    g_word, g_dice_set, g_dice, word_list, rng, stack, sy, sx,
                    count, ret, visit >>

(* find_words returned false to find_all_words, which returns false. *)
FindAllWordsAbort ==
    /\ pc = "unwind"
    /\ stack = << >>
    /\ AfterFindAllWords(FALSE)

(* The start loops are over: the post-search checks decide. *)
FindAllWordsFinish ==
    /\ pc = "search_start"
    /\ sy >= g_board_height
    /\ AfterFindAllWords(FinalChecks(g_num_words, g_score, g_longest,
                                     g_min_words, g_min_score, g_min_longest,
                                     g_max_longest))

(***************************************************************************)
(* Returning the result                                                    *)
(***************************************************************************)

(* The layout string the caller reads through *dice_simple: g_dice up to   *)
(* the NUL written at width * height.                                      *)
Layout(dice, n) == SubSeq(dice, 1, n)

(* A terminator written at the head of the list. *)
TerminatorIndexZero(num_words) == 0

(* The index the list's NULL terminator is written at. *)
TerminatorIndex(num_words) == num_words

(* The tail of get_words after a successful fill_board. *)
GetWordsReturn ==
    /\ pc = "gw_tail"
    /\ word_list' = SetNull(walk(word_list, used_indices), TerminatorIndex(g_num_words))
    /\ ret' = [null |-> FALSE,
               words |-> ReadList(word_list', hash_table, 1),
               layout |-> Layout(g_dice, g_board_width * g_board_height),
               tries |-> AttemptCount(count)]
    /\ pc' = "returned"
    /\ UNCHANGED << envVars, testVars, boardVars, consVars, counterVars, tableVars, callerVars,
                    g_word, g_dice_set, g_dice, rng, stack, sy, sx, count, rolled, visit >>

(* The tail of restore_game. *)
RestoreGameReturn ==
    /\ pc = "rg_tail"
    /\ word_list' = SetNull(walk(word_list, used_indices), TerminatorIndex(g_num_words))
    /\ ret' = [ret EXCEPT !.null = FALSE,
                           !.words = ReadList(word_list', hash_table, 1)]
    /\ pc' = "returned"
    /\ UNCHANGED << envVars, testVars, boardVars, consVars, counterVars, tableVars, callerVars,
                    g_word, g_dice_set, g_dice, rng, stack, sy, sx, count, rolled, visit >>

(***************************************************************************)
(* The caller: after a get_words call it makes a second call, either       *)
(* get_words again with the same arguments -- passing the same dice-set    *)
(* array, as the first call left it, or an array in the original order --  *)
(* or restore_game on the layout it was given; after a restore_game call   *)
(* it calls restore_game on another layout, "ETAS".                        *)
(***************************************************************************)
SecondCall ==
    /\ pc = "returned"
    /\ phase = 1
    /\ call.kind \in {"get_words", "restore_game"}
    /\ \E opt \in IF call.kind = "get_words"
                  THEN {"same_array", "fresh_array", "restore"}
                  ELSE {"restore_other"} :
          /\ opt = "restore" => ~ret.null
          /\ call' = CASE opt = "same_array" -> [call EXCEPT !.set = g_dice_set]
                       [] opt = "fresh_array" -> call
                       [] opt = "restore" ->
                             RestoreCall(call.width, call.height, ret.layout)
                       [] opt = "restore_other" ->
                             RestoreCall(2, 2, <<69, 84, 65, 83>>)
    /\ phase' = 2
    /\ ret1' = ret
    /\ pc' = "start"
    /\ UNCHANGED << envVars, testVars, boardVars, consVars, counterVars, tableVars, call1,
                    other, alone, g_word, g_dice_set, g_dice, word_list, rng, stack,
                    sy, sx, count, ret, rolled, visit >>

Next ==
    \/ ShuffleStep
    \/ TableInsert
    \/ TableReset
    \/ ReadDawg
    \/ GetWords
    \/ RestoreGame
    \/ FillBoard
    \/ Prefilter
    \/ FindAllWordsReset
    \/ SearchStart
    \/ FindWordsNeighbour
    \/ FindWordsReturn
    \/ Unwind
    \/ FindAllWordsAbort
    \/ FindAllWordsFinish
    \/ GetWordsReturn
    \/ RestoreGameReturn
    \/ SecondCall

Spec == Init /\ [][Next]_vars

(***************************************************************************)
(* A process that loads the dictionary of StorageDat and calls             *)
(* restore_game on the 15x2 layout.                                        *)
(***************************************************************************)
InitStorage ==
    /\ dawg = << >>
    /\ err_msg = ""
    /\ build = "shl_mod32"
    /\ call = StorageCall
    /\ past = 0
    /\ stray = << 0, 0 >>
    /\ file = StorageDat
    /\ call1 = call
    /\ phase = 1
    /\ pc = "load"
    /\ inserted = {}
    /\ last = NoOp
    /\ ops = 0
    /\ draws = << >>
    /\ visit = NoVisit
    /\ g_board_width = 0 /\ g_board_height = 0 /\ g_max_x = 0 /\ g_max_y = 0
    /\ g_score_counts = << >>
    /\ g_word = ZeroBuffer
    /\ g_board_failed = FALSE
    /\ g_dice_set = << >>
    /\ g_dice = << >>
    /\ g_min_words = 0 /\ g_max_words = 0 /\ g_min_score = 0 /\ g_max_score = 0
    /\ g_min_longest = 0 /\ g_max_longest = 0 /\ g_min_legal = 0
    /\ g_num_words = 0 /\ g_longest = 0 /\ g_score = 0
    /\ hash_table = << >>
    /\ used_indices = << >>
    /\ word_count = 0
    /\ word_list = << >>
    /\ rng = 1
    /\ stack = << >>
    /\ sy = 0 /\ sx = 0
    /\ count = 0
    /\ ret = NullRet
    /\ ret1 = NullRet
    /\ other = NoThread
    /\ alone = TRUE
    /\ rolled = << >>

NextStorage ==
    \/ ReadDawg
    \/ RestoreGame
    \/ FindAllWordsReset
    \/ SearchStart
    \/ FindWordsNeighbour
    \/ FindWordsReturn

SpecStorage == InitStorage /\ [][NextStorage]_vars

(***************************************************************************)
(* Two threads of one process, each calling restore_game: the globals are  *)
(* shared, the arguments, the loop variables of find_all_words and the     *)
(* frames of find_words are each thread's own.  The variables pc, stack,   *)
(* sy, sx, call and ret are those of the running thread; Switch lets the   *)
(* other thread run.  The dictionary is loaded before the threads start.   *)
(***************************************************************************)
ThreadCallA == RestoreCall(2, 1, <<65, 84>>)

ThreadCallB == RestoreCall(2, 1, <<83, 69>>)

InitThreads ==
    /\ dawg = << >>
    /\ err_msg = ""
    /\ build = "shl_mod32"
    /\ call = ThreadCallA
    /\ past = 0
    /\ stray = << 0, 0 >>
    /\ file = WordsDat
    /\ call1 = call
    /\ phase = 1
    /\ pc = "load"
    /\ inserted = {}
    /\ last = NoOp
    /\ ops = 0
    /\ draws = << >>
    /\ visit = NoVisit
    /\ g_board_width = 0 /\ g_board_height = 0 /\ g_max_x = 0 /\ g_max_y = 0
    /\ g_score_counts = << >>
    /\ g_word = ZeroBuffer
    /\ g_board_failed = FALSE
    /\ g_dice_set = << >>
    /\ g_dice = << >>
    /\ g_min_words = 0 /\ g_max_words = 0 /\ g_min_score = 0 /\ g_max_score = 0
    /\ g_min_longest = 0 /\ g_max_longest = 0 /\ g_min_legal = 0
    /\ g_num_words = 0 /\ g_longest = 0 /\ g_score = 0
    /\ hash_table = << >>
    /\ used_indices = << >>
    /\ word_count = 0
    /\ word_list = << >>
    /\ rng = 1
    /\ stack = << >>
    /\ sy = 0 /\ sx = 0
    /\ count = 0
    /\ ret = NullRet
    /\ ret1 = NullRet
    /\ other = [NoThread EXCEPT !.pc = "start", !.call = ThreadCallB]
    /\ alone = TRUE
    /\ rolled = << >>

(* The scheduler takes the running thread off the processor at any step    *)
(* and resumes the other one, unless that one has returned.                *)
Switch ==
    /\ pc # "load"
    /\ other.pc \notin {"none", "returned"}
    /\ other' = [pc |-> pc, stack |-> stack, sy |-> sy, sx |-> sx, call |-> call,
                 ret |-> ret, alone |-> alone /\ pc \in {"start", "returned"}]
    /\ pc' = other.pc
    /\ stack' = other.stack
    /\ sy' = other.sy
    /\ sx' = other.sx
    /\ call' = other.call
    /\ ret' = other.ret
    /\ alone' = other.alone
    /\ UNCHANGED << envVars, testVars, boardVars, consVars, counterVars, tableVars,
                    call1, phase, ret1, g_word, g_dice_set, g_dice, word_list, rng,
                    count, rolled, visit >>

NextThreads ==
    \/ ReadDawg
    \/ RestoreGame
    \/ FindAllWordsReset
    \/ SearchStart
    \/ FindWordsNeighbour
    \/ FindWordsReturn
    \/ FindAllWordsFinish
    \/ RestoreGameReturn
    \/ Switch

SpecThreads == InitThreads /\ [][NextThreads]_vars

(***************************************************************************)
(* Reference definitions the properties are stated with: what a            *)
(* dictionary holds, what a board spells, what the constraints demand.     *)
(***************************************************************************)

(* The text of a tile code. *)
TileText(c) ==
    CASE c = 48 -> << 95, 95 >>
      [] c = 49 -> << 81, 85 >>
      [] c = 50 -> << 73, 78 >>
      [] c = 51 -> << 84, 72 >>
      [] c = 52 -> << 69, 82 >>
      [] c = 53 -> << 72, 69 >>
      [] OTHER -> << c >>

IsPrefix(a, b) == Len(a) <= Len(b) /\ SubSeq(b, 1, Len(a)) = a
Drop(a, k) == SubSeq(a, k + 1, Len(a))
Abs(v) == IF v < 0 THEN -v ELSE v

(* Positions p, q (row-major, from 0) of a board of width w are            *)
(* 8-neighbours.                                                           *)
Adjacent(p, q, w) ==
    /\ p # q
    /\ Abs((p \div w) - (q \div w)) <= 1
    /\ Abs((p % w) - (q % w)) <= 1

(* The simple paths of adjacent positions that start at p, avoid           *)
(* `visited`, and whose tile texts concatenate to `word`.                  *)
RECURSIVE PathsFrom(_, _, _, _, _, _)
PathsFrom(word, p, visited, board, w, n) ==
    LET t == TileText(board[p + 1])
        rest == Drop(word, Len(t))
    IN  IF ~IsPrefix(t, word) THEN {}
        ELSE IF rest = << >> THEN { << p >> }
        ELSE UNION { { << p >> \o tl :
                         tl \in PathsFrom(rest, q, visited \cup {q}, board, w, n) } :
                     q \in { r \in 0..(n - 1) : r \notin visited /\ Adjacent(p, r, w) } }

Paths(word, board, w, h) ==
    UNION { PathsFrom(word, p, {p}, board, w, w * h) : p \in 0..(w * h - 1) }

Spellable(word, board, w, h) == Paths(word, board, w, h) # {}

(* The nodes of the sibling list that starts at i. *)
RECURSIVE Siblings(_, _)
Siblings(dw, i) ==
    IF i = 0 THEN {} ELSE {i} \cup Siblings(dw, DAWG_NEXT(dw, i))

(* The path of `word` from sibling list i ends on an end-of-word node. *)
RECURSIVE DawgAccepts(_, _, _)
DawgAccepts(dw, i, word) ==
    /\ word # << >>
    /\ \E nd \in Siblings(dw, i) :
          /\ DAWG_LETTER(dw, nd) = Head(word)
          /\ IF Len(word) = 1 THEN DAWG_EOW(dw, nd)
             ELSE DawgAccepts(dw, DAWG_CHILD(dw, nd), Tail(word))

InDictionary(dw, word) == DawgAccepts(dw, 1, word)

(* All words of the dictionary below sibling list i, prefixed by pre. *)
RECURSIVE WordsFrom(_, _, _)
WordsFrom(dw, i, pre) ==
    UNION { (IF DAWG_EOW(dw, nd) THEN { Append(pre, DAWG_LETTER(dw, nd)) } ELSE {})
            \cup WordsFrom(dw, DAWG_CHILD(dw, nd), Append(pre, DAWG_LETTER(dw, nd))) :
            nd \in Siblings(dw, i) }

DictionaryWords(dw) == WordsFrom(dw, 1, << >>)

(* The dictionary words of length >= min_legal the board spells. *)
BoardWords(dw, board, w, h, min_legal) ==
    { wd \in DictionaryWords(dw) : Len(wd) >= min_legal /\ Spellable(wd, board, w, h) }

SeqToSet(q) == { q[k] : k \in 1..Len(q) }

(* The int at table[len] as the search reads it. *)
ScoreAt(table, len) == ScoreMemory(table, past)[len + 1]

RECURSIVE SumScoresSeq(_, _)
SumScoresSeq(words, table) ==
    IF words = << >> THEN 0
    ELSE ScoreAt(table, Len(Head(words))) + SumScoresSeq(Tail(words), table)

RECURSIVE SumScoresSet(_, _)
SumScoresSet(W, table) ==
    IF W = {} THEN 0
    ELSE LET wd == CHOOSE v \in W : TRUE
         IN  ScoreAt(table, Len(wd)) + SumScoresSet(W \ {wd}, table)

RECURSIVE MaxLenSeq(_)
MaxLenSeq(words) ==
    IF words = << >> THEN 0
    ELSE LET m == MaxLenSeq(Tail(words))
         IN  IF Len(Head(words)) > m THEN Len(Head(words)) ELSE m

MaxLenSet(W) == IF W = {} THEN 0 ELSE CHOOSE m \in { Len(v) : v \in W } :
                                         \A v \in W : Len(v) <= m

AtMost(v, max) == max = -1 \/ v <= max

(* The word set W meets the constraint record c under the score table. *)
MeetsConstraints(W, c, table) ==
    /\ c.min_words <= Cardinality(W) /\ AtMost(Cardinality(W), c.max_words)
    /\ c.min_score <= SumScoresSet(W, table) /\ AtMost(SumScoresSet(W, table), c.max_score)
    /\ c.min_longest <= MaxLenSet(W) /\ AtMost(MaxLenSet(W), c.max_longest)

(* The board satisfies the constraints of the running get_words call. *)
BoardSatisfies(board) ==
    MeetsConstraints(BoardWords(dawg, board, call.width, call.height, call.cons.min_legal),
                     call.cons, call.score_counts)

Returned == pc = "returned" /\ ~ret.null
Searching == pc \in {"search_start", "search", "unwind", "gw_tail", "rg_tail"}
FoundWords == { hash_table[s] : s \in DOMAIN hash_table }
IsSound(word) ==
    /\ InDictionary(dawg, word)
    /\ Spellable(word, g_dice, g_board_width, g_board_height)

(***************************************************************************)
(* Properties                                                              *)
(***************************************************************************)

(* The boards on which every mask of find_words is a defined shift. *)
MasksDefined == g_board_width * g_board_height <= 31

(* The tile codes of the alphabet: 'A'..'Z' and '0'..'5'. *)
ValidTile(c) == c \in 65..90 \/ c \in 48..53

(* Every tile of the board is of the alphabet. *)
TilesValid == \A k \in 1..Len(g_dice) : ValidTile(g_dice[k])

(* C1: soundness of the search -- every word in the found-word list,       *)
(* during a search and in the list get_words or restore_game returns, is   *)
(* a word of the dictionary and is spelled on the board by a simple path   *)
(* of adjacent tiles.                                                      *)
C1_Soundness ==
    /\ Searching => \A wd \in FoundWords : IsSound(wd)
    /\ Returned => \A wd \in SeqToSet(ret.words) : IsSound(wd)

(* C1 restricted to boards of at most 31 tiles, each a letter or one of    *)
(* '0'..'5'.                                                               *)
C1_SoundnessUpTo31 == MasksDefined /\ TilesValid => C1_Soundness

(* C2: completeness of the search -- a returned list holds every           *)
(* dictionary word of length >= min_legal that the board spells.           *)
C2_Completeness ==
    Returned =>
        BoardWords(dawg, g_dice, g_board_width, g_board_height, g_min_legal)
            \subseteq SeqToSet(ret.words)

(* C2 restricted to boards of at most 31 tiles. *)
C2_CompletenessUpTo31 == MasksDefined => C2_Completeness

(* C3: the returned word list has no duplicates. *)
C3_NoDuplicates ==
    Returned =>
        \A j, k \in 1..Len(ret.words) : j # k => ret.words[j] # ret.words[k]

(* C3 witness: a list was returned that holds a word the board spells by   *)
(* more than one path.                                                     *)
C3_Witness ==
    /\ Returned
    /\ \E wd \in SeqToSet(ret.words) :
          Cardinality(Paths(wd, g_dice, g_board_width, g_board_height)) >= 2

(* The evaluations of the running get_words call that are over. *)
Evaluated ==
    IF call.kind = "get_words" /\ pc \in {"fill_board", "gw_tail", "returned"}
    THEN { k \in 1..Len(rolled) : rolled[k].searched }
    ELSE {}

(* C4: find_all_words returns true exactly when the complete set of        *)
(* dictionary words the board spells meets the minimum and maximum word    *)
(* count, score and longest-word constraints.                              *)
C4_VerdictIffConstraintsMet ==
    \A k \in Evaluated : rolled[k].accepted <=> BoardSatisfies(rolled[k].board)

(* C4 restricted to boards of at most 31 tiles. *)
C4_VerdictUpTo31 == MasksDefined => C4_VerdictIffConstraintsMet

GetReturned == Returned /\ call.kind = "get_words"

(* C5: a board returned by get_words meets every bound -- counters and     *)
(* list alike: at least min_words words, at least min_score points, a      *)
(* longest word of min_longest..max_longest letters, at most max_words     *)
(* words and max_score points (a maximum of -1 is no bound).               *)
C5_ReturnedBoardMeetsBounds ==
    GetReturned =>
        /\ g_num_words >= call.cons.min_words
        /\ Len(ret.words) >= call.cons.min_words
        /\ g_score >= call.cons.min_score
        /\ g_longest >= call.cons.min_longest
        /\ MaxLenSeq(ret.words) >= call.cons.min_longest
        /\ AtMost(g_longest, call.cons.max_longest)
        /\ AtMost(MaxLenSeq(ret.words), call.cons.max_longest)
        /\ AtMost(g_num_words, call.cons.max_words)
        /\ AtMost(g_score, call.cons.max_score)

(* C5 witness: get_words returned a board under constraints that bound     *)
(* the longest word from below and the counters from above.                *)
C5_Witness ==
    /\ GetReturned
    /\ call.cons.min_longest >= 3
    /\ call.cons.max_words >= 0 /\ call.cons.max_score >= 0
    /\ call.cons.max_longest >= 0

(* C6: with max_words = M >= 0 the step that accepts the (M+1)-th novel    *)
(* word sets the fail flag and makes find_words return false, the aborted  *)
(* evaluation rejects the board, and a returned board has at most M        *)
(* different words.                                                        *)
C6_MaxWordsTrip ==
    /\ [](GetReturned /\ call.cons.max_words >= 0
             => Cardinality(SeqToSet(ret.words)) <= call.cons.max_words)
    /\ [][g_num_words' # g_num_words /\ g_num_words' > g_max_words
             => g_board_failed' /\ pc' = "unwind"]_vars
    /\ [][pc = "unwind" /\ pc' # "unwind"
             => pc' = "fill_board" /\ ~rolled'[Len(rolled')].accepted]_vars

(* C6 witness: the search stopped with the fail flag set on the word       *)
(* after the max_words-th.                                                 *)
C6_Witness ==
    /\ pc = "unwind"
    /\ g_board_failed
    /\ call.kind = "get_words" /\ call.cons.max_words >= 0
    /\ g_num_words = call.cons.max_words + 1

(* C7: the counters of a returned result are those of the returned words,  *)
(* and the NULL terminator sits right after the last word walk produced.   *)
C7_CountersMatchWords ==
    Returned =>
        /\ g_score = SumScoresSeq(ret.words, g_score_counts)
        /\ g_longest = MaxLenSeq(ret.words)
        /\ g_num_words = Len(ret.words)
        /\ Len(used_indices) = g_num_words
        /\ word_list[g_num_words + 1] = NULL
        /\ \A k \in 1..g_num_words : word_list[k] # NULL

(* C7 witness: a result of several words and a positive score. *)
C7_Witness == Returned /\ Len(ret.words) >= 3 /\ g_score >= 2

SecondGetReturned == phase = 2 /\ pc = "returned" /\ call.kind = "get_words"

(* C8 as stated: a second get_words call with the same arguments returns   *)
(* what the first returned, also when it is handed the dice-set array the  *)
(* first call shuffled.                                                    *)
C8_SameArgumentsSameResult == SecondGetReturned => ret = ret1

(* C8 amended: two get_words calls whose dice-set arrays hold the same     *)
(* dice in the same order when they are called, and whose other arguments  *)
(* are equal, return the same words, layout and tries.                     *)
C8_SameDiceOrderSameResult ==
    SecondGetReturned /\ call.set = call1.set => ret = ret1

(* C8 witness: a second call on the same dice order returned a board it    *)
(* needed more than one roll for.                                          *)
C8_Witness ==
    SecondGetReturned /\ call.set = call1.set /\ ~ret.null /\ ret.tries >= 2

(* C9: restore_game on the layout get_words returned gives the words       *)
(* get_words returned.                                                     *)
C9_RoundTrip ==
    phase = 2 /\ pc = "returned" /\ call.kind = "restore_game"
              /\ call1.kind = "get_words"
        => SeqToSet(ret.words) = SeqToSet(ret1.words)

(* What find_all_words returns, or would return, for a rolled board. *)
WouldAccept(r) == IF r.searched THEN r.accepted ELSE BoardSatisfies(r.board)

GetDone == pc = "returned" /\ call.kind = "get_words"

(* C10 as stated: get_words returns NULL exactly when none of the boards   *)
(* it rolled satisfies the constraints.                                    *)
C10_NullIffNoBoardQualifies ==
    GetDone => (ret.null <=> \A k \in 1..Len(rolled) : ~WouldAccept(rolled[k]))

(* The number of rolls max_tries allows. *)
Budget == IF call.max_tries > 0 THEN call.max_tries ELSE 0

(* C10 amended: get_words returns NULL exactly when none of the max_tries  *)
(* boards it rolled both passes board_looks_promising and is accepted by   *)
(* find_all_words; only boards that pass the prefilter are searched.       *)
C10_NullIffNoBoardPassesBoth ==
    GetDone =>
        /\ ret.null <=> \A k \in 1..Len(rolled) : ~rolled[k].accepted
        /\ ret.null => Len(rolled) = Budget
        /\ \A k \in 1..Len(rolled) :
              /\ rolled[k].accepted => rolled[k].searched
              /\ rolled[k].searched <=>
                    board_looks_promising(rolled[k].board, call.width, call.height,
                                          call.cons.min_words, call.cons.min_longest)

(* C10 witness: get_words returned NULL after rolling a board that the     *)
(* prefilter turned away although it satisfies the constraints.            *)
C10_Witness ==
    /\ GetDone
    /\ ret.null
    /\ \E k \in 1..Len(rolled) : ~rolled[k].searched /\ BoardSatisfies(rolled[k].board)

(* The out variables as they were when the running call was made. *)
OutBefore == IF phase = 1 THEN NullRet ELSE ret1

(* C11: on success get_words reports the 1-based index t of the accepted   *)
(* roll, 1 <= t <= max_tries, every earlier roll having been rejected and  *)
(* counted, a prefilter rejection included; on exhaustion, also with       *)
(* max_tries <= 0 where nothing is rolled, it returns NULL and leaves      *)
(* *num_tries and *dice_simple as they were.                               *)
C11_AttemptCount ==
    GetDone =>
        IF ret.null
        THEN /\ ret.tries = OutBefore.tries
             /\ ret.layout = OutBefore.layout
             /\ Len(rolled) = Budget
             /\ \A k \in 1..Len(rolled) : ~rolled[k].accepted
        ELSE /\ ret.tries = Len(rolled)
             /\ 1 <= ret.tries /\ ret.tries <= call.max_tries
             /\ rolled[ret.tries].accepted
             /\ ret.layout = rolled[ret.tries].board
             /\ \A k \in 1..(ret.tries - 1) : ~rolled[k].accepted

(* C11 witness: a success on the second roll after a prefilter rejection   *)
(* of the first.                                                           *)
C11_Witness ==
    /\ GetDone
    /\ ~ret.null
    /\ ret.tries = 2
    /\ ~rolled[1].searched

(* C11 second witness state: a second call that ran out of rolls while the *)
(* caller's out variables still hold what the first call wrote.            *)
C11_ExhaustedAfterSuccess ==
    /\ GetDone
    /\ phase = 2
    /\ ret.null
    /\ ~ret1.null
    /\ ret.tries = ret1.tries /\ ret.tries >= 1

(* The running call was given a board of more than 36 tiles. *)
TooLarge == call.kind \in {"get_words", "restore_game"} /\ call.width * call.height > 36

(* C12: get_words and restore_game reject width * height > 36 at once:     *)
(* the call goes from its entry to the fatal error and nowhere else, so no *)
(* board is rolled, copied or searched.                                    *)
C12_BoardTooLargeRejected ==
    TooLarge => /\ pc \in {"start", "fatal"}
                /\ g_dice = << >>
                /\ rolled = << >>

(* C12 for get_words alone. *)
C12_GetWordsRejects ==
    TooLarge /\ call.kind = "get_words" =>
        /\ pc \in {"start", "fatal"}
        /\ g_dice = << >>
        /\ rolled = << >>

(* The state C12 fails in: restore_game returned the words of a 37-tile    *)
(* layout.                                                                 *)
C12_RestoreGameSearched ==
    /\ TooLarge
    /\ call.kind = "restore_game"
    /\ Returned
    /\ ret.words # << >>

(* A die of the alphabet: six faces, each 'A'..'Z' or '0'..'5'. *)
ValidDie(die) == Len(die) = NUM_FACES /\ \A f \in 1..Len(die) : ValidTile(die[f])

BadDiceSet(set) == \E k \in 1..Len(set) : ~ValidDie(set[k])

(* The tile find_words is looking at in its innermost frame. *)
TileInHand == LET top == stack[Len(stack)]
              IN  g_dice[top.y * g_board_width + top.x + 1]

(* C13: a dice set with a bad die is rejected before any roll or search,   *)
(* so every tile the search sees is 'A'..'Z' or '0'..'5' and               *)
(* g_special_dice is indexed with 0..5 only.                               *)
C13_BadDieRejected ==
    /\ call.kind = "get_words" /\ BadDiceSet(call.set)
          => pc \in {"start", "fatal"} /\ rolled = << >>
    /\ call.kind = "get_words" /\ Searching => TilesValid
    /\ pc = "search" /\ stack # << >> /\ TileInHand < 65
          => TileInHand - 48 \in 0..5

(* What does hold: a dice set of good dice rolls boards of the alphabet. *)
C13_GoodDiceGoodTiles ==
    call.kind = "get_words" /\ ~BadDiceSet(call.set) /\ pc # "start" => TilesValid

(* The state C13 fails in: a word that the bytes outside g_special_dice    *)
(* spelled was returned from a board with a '9' tile.                      *)
C13_StrayWordReturned ==
    /\ call.kind = "get_words" /\ BadDiceSet(call.set)
    /\ Returned
    /\ \E wd \in SeqToSet(ret.words) : ~IsSound(wd)

(* The element count the file declares, and the words that follow it. *)
Declared(f) == Head(f.words)

PresentWords(f) == Len(f.words) - 1

(* read_dawg has run. *)
Loaded == pc # "load"

(* C14: read_dawg fails with an I/O error when the file cannot be opened   *)
(* or is shorter than its 4-byte header, fails with a format error when    *)
(* the declared count exceeds the words present, and succeeds only when    *)
(* the declared size is consistent with the file.                          *)
C14_LoadErrors ==
    Loaded =>
        /\ ~file.present \/ Len(file.words) < 1
              => pc = "fatal" /\ err_msg \in {"Cannot open", "Cannot get size of"}
        /\ file.present /\ Len(file.words) >= 1 /\ Declared(file) > PresentWords(file)
              => pc = "fatal" /\ err_msg # ""
        /\ dawg # << >> => Declared(file) = PresentWords(file)

(* What does hold: the two I/O failures end the process, and every file    *)
(* with a header is loaded whole, whatever its count says.                 *)
C14_IoErrorsOnly ==
    Loaded =>
        /\ ~file.present => pc = "fatal" /\ err_msg = "Cannot open"
        /\ file.present /\ Len(file.words) < 1
              => pc = "fatal" /\ err_msg = "Cannot get size of"
        /\ file.present /\ Len(file.words) >= 1
              => dawg = Tail(file.words) /\ err_msg # "Cannot open"
                                         /\ err_msg # "Cannot get size of"

(* The state C14 fails in: a call returned words found with a dictionary   *)
(* whose header declares more words than the file holds.                   *)
C14_OverstatedLoaded ==
    /\ Len(file.words) >= 1
    /\ Declared(file) > PresentWords(file)
    /\ Returned
    /\ ret.words # << >>

(* The min_words and min_longest values the prefilter is compared under:   *)
(* both sides of each of its thresholds.                                   *)
PrefilterMinWords == {0, 1, 100, 101, 200, 201}

PrefilterMinLongest == {0, 3, 10, 11, 16}

(* board_looks_promising on the board in g_dice. *)
Promising(min_words, min_longest) ==
    board_looks_promising(g_dice, g_board_width, g_board_height, min_words, min_longest)

(* A board has been rolled or copied into g_dice. *)
BoardInPlace == g_dice # << >> /\ Len(g_dice) >= g_board_width * g_board_height
                               /\ g_board_width * g_board_height > 0

(* The board in g_dice has just been placed: make_dice has rolled it and   *)
(* the prefilter is about to read it, or restore_game has copied it and    *)
(* find_all_words is about to search it.                                   *)
BoardPlaced == BoardInPlace /\ pc \in {"prefilter", "find_all_words"}

(* C15: a board the prefilter rejects under min_words and min_longest is   *)
(* rejected under every larger min_words and min_longest.                  *)
C15_PrefilterMonotone ==
    BoardPlaced =>
        \A mw1, mw2 \in PrefilterMinWords : \A ml1, ml2 \in PrefilterMinLongest :
            mw1 <= mw2 /\ ml1 <= ml2 /\ ~Promising(mw1, ml1) => ~Promising(mw2, ml2)

(* C15 witness: the prefilter has run on a board that passes under the     *)
(* constraints of the call, is rejected from 101 words on and so also from *)
(* 201 words on.                                                           *)
C15_Witness ==
    /\ pc = "find_all_words"
    /\ call.kind = "get_words"
    /\ Promising(call.cons.min_words, call.cons.min_longest)
    /\ Promising(100, 10)
    /\ ~Promising(101, 0)
    /\ ~Promising(201, 11)

(* The slot a word is stored in. *)
SlotOf(word) == CHOOSE sl \in DOMAIN hash_table : hash_table[sl] = word

(* C16: under every sequence of insert and reset the table behaves as a    *)
(* set -- insert(w) returns true exactly when w was not inserted since the *)
(* last reset, the table holds the inserted words once each, and after a   *)
(* reset it is empty.                                                      *)
C16_TableIsASet ==
    pc = "table" =>
        /\ last.op = "insert" => (last.ok <=> last.novel)
        /\ FoundWords = inserted
        /\ Cardinality(DOMAIN hash_table) = Cardinality(inserted)
        /\ word_count = Cardinality(inserted)
        /\ Len(used_indices) = Cardinality(inserted)
        /\ last.op = "reset" => DOMAIN hash_table = {}

(* C16 witness: two words that hash to slot 6821 pushed a third out of its *)
(* home slot 6822, and inserting that third word again was refused.        *)
C16_Witness ==
    /\ pc = "table"
    /\ last.op = "insert" /\ ~last.ok
    /\ last.word = << 67, 65, 85 >>
    /\ hash_word(<< 67, 65, 84 >>) = 6821
    /\ hash_word(<< 67, 65, 85 >>) = 6822
    /\ SlotOf(<< 67, 65, 85 >>) = 6823
    /\ Cardinality(inserted) = 3

(* C16 second witness state: a word whose home is the last slot sits in    *)
(* slot 0, and was inserted as new again after a reset.                    *)
C16_WrapAround ==
    /\ pc = "table"
    /\ 0 \in DOMAIN hash_table
    /\ hash_word(hash_table[0]) = HASH_SIZE - 1

(* The dice of a and of b are the same, each as many times. *)
SameDice(a, b) ==
    /\ Len(a) = Len(b)
    /\ \A k \in 1..Len(a) :
          Cardinality({m \in 1..Len(a) : a[m] = a[k]})
              = Cardinality({m \in 1..Len(b) : b[m] = a[k]})

(* The tile at every position is a face of the die at that position. *)
TilesFromDiceInPlace ==
    /\ Len(g_dice) = g_board_width * g_board_height
    /\ \A i \in 1..Len(g_dice) :
          \E f \in 1..NUM_FACES : g_dice[i] = g_dice_set[i][f]

(* get_words has taken the caller's dice set. *)
DiceSetTaken == call.kind = "get_words" /\ pc \notin {"load", "start", "fatal"}

(* C17: after any number of rolls the dice-set array holds the dice the    *)
(* caller gave, reordered and unmodified, and after each roll every tile   *)
(* is one of the six faces of the die the shuffle left at its position.    *)
C17_RollPostcondition ==
    DiceSetTaken =>
        /\ SameDice(g_dice_set, call.set)
        /\ SameDice(g_dice_set, call1.set)
        /\ Len(rolled) > 0 =>
              /\ g_dice = rolled[Len(rolled)].board
              /\ TilesFromDiceInPlace

(* C17 witness: a second call has rolled twice on the array the first call *)
(* left, and the dice are no longer in the order the caller gave.          *)
C17_Witness ==
    /\ DiceSetTaken
    /\ phase = 2
    /\ Len(rolled) = 2
    /\ g_dice_set # call1.set
    /\ TilesFromDiceInPlace

(* The bit indices of the positions on the recursion path up to frame k. *)
PathBits(k) == {stack[m].y * g_board_width + stack[m].x : m \in 1..k}

(* Every frame's `used` holds exactly the bits of the positions visited on *)
(* the path down to it, one bit each.                                      *)
UsedIsPath ==
    \A k \in 1..Len(stack) :
        /\ stack[k].used = PathBits(k)
        /\ Cardinality(stack[k].used) = k

(* C18: on every board of at most 36 tiles the mask of position (y, x) is  *)
(* the single bit y*width + x, so that `used` holds exactly one bit for    *)
(* each position visited on the current recursion path.                    *)
C18_UsedMaskEncoding ==
    g_board_width * g_board_height <= 36 => UsedIsPath

(* The same on the boards whose bit indices stay below 31. *)
C18_UsedMaskUpTo31 == MasksDefined => UsedIsPath

(* Every found word has at least g_min_legal letters and is counted. *)
WordsLegalAndCounted ==
    /\ \A word \in FoundWords : Len(word) >= g_min_legal
    /\ g_num_words = Cardinality(FoundWords)

(* g_score and g_longest are those of the word set W. *)
ScoreAndLongestOf(W) ==
    /\ g_score = SumScoresSet(W, g_score_counts)
    /\ g_longest = MaxLenSet(W)

(* C19 as stated: in every state of a search, the state left by a tripped  *)
(* upper bound included, the found words have at least min_legal letters   *)
(* and num_words, score and longest are the size, the score sum and the    *)
(* maximum length of the found-word set.                                   *)
C19_CountersAtAllTimes ==
    Searching => WordsLegalAndCounted /\ ScoreAndLongestOf(FoundWords)

(* C19 amended: the counters are those of the found-word set in every      *)
(* state of a search whose fail flag is clear.  In the state a tripped     *)
(* bound leaves, the tripping word (the one in g_word) is in the set and   *)
(* in num_words, score lacks it when max_words tripped, and longest lacks  *)
(* it when max_words or max_score tripped.                                 *)
C19_CountersUntilTrip ==
    Searching =>
        /\ WordsLegalAndCounted
        /\ ~g_board_failed => ScoreAndLongestOf(FoundWords)
        /\ g_board_failed =>
              LET trip == CStr(g_word)
                  before == FoundWords \ {trip}
              IN  /\ trip \in FoundWords
                  /\ g_score \in { SumScoresSet(before, g_score_counts),
                                   SumScoresSet(FoundWords, g_score_counts) }
                  /\ g_longest \in { MaxLenSet(before), MaxLenSet(FoundWords) }
                  /\ g_num_words > g_max_words
                        => ScoreAndLongestOf(before)
                  /\ g_num_words <= g_max_words /\ g_score > g_max_score
                        => /\ g_score = SumScoresSet(FoundWords, g_score_counts)
                           /\ g_longest = MaxLenSet(before)
                  /\ g_num_words <= g_max_words /\ g_score <= g_max_score
                        => ScoreAndLongestOf(FoundWords)

(* C19 witness: max_words tripped on a word that scores, and the frames    *)
(* unwind with g_score short of the score of the found words.              *)
C19_Witness ==
    /\ pc = "unwind"
    /\ g_board_failed
    /\ g_num_words > g_max_words
    /\ WordsLegalAndCounted
    /\ g_score < SumScoresSet(FoundWords, g_score_counts)

(* One step taken with the fail flag involved. *)
FailFlagStep ==
    /\ ~g_board_failed /\ g_board_failed' => pc' = "unwind"
    /\ g_board_failed /\ g_board_failed' =>
          UNCHANGED << hash_table, used_indices, word_count,
                       g_num_words, g_score, g_longest >>
    /\ g_board_failed /\ pc = "unwind" =>
          /\ g_board_failed'
          /\ sy' = sy /\ sx' = sx
          /\ IF stack # << >>
             THEN /\ pc' = "unwind"
                  /\ stack' = SubSeq(stack, 1, Len(stack) - 1)
             ELSE /\ stack' = stack
                  /\ IF call.kind = "get_words"
                     THEN /\ pc' = "fill_board"
                          /\ ~rolled'[Len(rolled')].accepted
                     ELSE pc' = "rg_tail"
    /\ g_board_failed /\ ~g_board_failed' =>
          pc = "find_all_words" /\ pc' = "search_start"

(* C20: once the fail flag is set no word is inserted and no counter       *)
(* changes for the rest of the evaluation, every pending frame unwinds     *)
(* with false, no further start position is searched, find_all_words       *)
(* returns false, and only the head of the next find_all_words clears the  *)
(* flag.                                                                   *)
C20_FailFlagSingleShot == [][FailFlagStep]_vars

(* While the flag is set a search is unwinding or has been left. *)
C20_FailedMeansUnwinding ==
    g_board_failed => pc \notin {"search_start", "search", "gw_tail"}

(* C20 witness: a bound tripped under pending frames at a start position   *)
(* that is not the last one, and the frames are unwinding.                 *)
C20_Witness ==
    /\ g_board_failed
    /\ pc = "unwind"
    /\ Len(stack) >= 2
    /\ << sy, sx >> # << g_board_height - 1, g_board_width - 1 >>

(* After the abort get_words rolls on: the evaluation returned false with  *)
(* start positions left unsearched.                                        *)
C20_AbortedBeforeLastStart ==
    /\ g_board_failed
    /\ pc = "fill_board"
    /\ call.kind = "get_words"
    /\ rolled # << >>
    /\ rolled[Len(rolled)].searched /\ ~rolled[Len(rolled)].accepted
    /\ sy = 0

(* The position, tile code and caller's values of frame k. *)
FramePos(k) == stack[k].y * g_board_width + stack[k].x
FrameTile(k) == g_dice[FramePos(k) + 1]
CallerLen(k) == IF k = 1 THEN 0 ELSE stack[k - 1].word_len
CallerUsed(k) == IF k = 1 THEN {} ELSE stack[k - 1].used
CallerNode(k) == IF k = 1 THEN 1 ELSE stack[k - 1].i

(* The number of letters the tiles on the path down to frame k stand for:  *)
(* one for a letter tile, two for a multi-letter tile.                     *)
RECURSIVE PathLetters(_)
PathLetters(k) ==
    IF k = 0 THEN 0
    ELSE PathLetters(k - 1) + (IF FrameTile(k) \in 49..53 THEN 2 ELSE 1)

(* Frame k stands on a multi-letter tile whose two letters were appended   *)
(* together, two DAWG levels below the caller's list.                      *)
BothLettersTaken(k) ==
    LET t == TileText(FrameTile(k))
        n1 == ScanSiblings(dawg, CallerNode(k), t[1])
        n2 == ScanSiblings(dawg, DAWG_CHILD(dawg, n1), t[2])
    IN  /\ stack[k].word_len = CallerLen(k) + 2
        /\ SubSeq(g_word, CallerLen(k) + 1, CallerLen(k) + 2) = t
        /\ n1 # 0 /\ n2 # 0
        /\ stack[k].i = DAWG_CHILD(dawg, n2)

(* The frames of the search treat multi-letter tiles as one tile of two    *)
(* letters; `one_bit` says whether each also took one bit of `used`.       *)
TilesAtomic(one_bit) ==
    \A k \in 1..Len(stack) :
        /\ FrameTile(k) # 48
        /\ stack[k].word_len = PathLetters(k)
        /\ FrameTile(k) \in 49..53 =>
              /\ BothLettersTaken(k)
              /\ one_bit => Cardinality(stack[k].used \ CallerUsed(k)) = 1

(* C21: on a board of the alphabet with at most 36 tiles, a visit of a     *)
(* tile '1'..'5' appends both letters of the tile, two DAWG levels down,   *)
(* and sets exactly one bit of `used`, or appends nothing; word lengths    *)
(* count one per letter tile and two per multi-letter tile of the path;    *)
(* no path holds a '0' tile.                                               *)
C21_MultiLetterAtomic ==
    g_board_width * g_board_height <= 36 /\ TilesValid => TilesAtomic(TRUE)

(* The same without the bit of `used`, and with it where the masks are     *)
(* defined shifts.                                                         *)
C21_LettersAtomic ==
    TilesValid => TilesAtomic(MasksDefined)

(* A frame on a multi-letter tile of a board of at most 31 tiles. *)
C21_DigraphFrame ==
    /\ MasksDefined /\ TilesValid
    /\ \E k \in 1..Len(stack) : FrameTile(k) \in 49..53 /\ k >= 2

(* The signals of the prefilter rules over the n tiles of the board:       *)
(* vowels are A, E, I, O, U and the tiles '2' and '5', common consonants   *)
(* S, R, T, N, L, multi-letter tiles '1'..'5'.                             *)
RuleVowels(n) == Cardinality({k \in 1..n : g_dice[k] \in {65, 69, 73, 79, 85, 50, 53}})
RuleCommons(n) == Cardinality({k \in 1..n : g_dice[k] \in {83, 82, 84, 78, 76}})
RuleMulti(n) == Cardinality({k \in 1..n : g_dice[k] \in 49..53})
RuleEndings(n) == \E k \in 1..n : g_dice[k] \in {83, 68, 71}

(* The rules other than the vowel fraction reject the board. *)
OtherRulesReject(n, min_words, min_longest) ==
    LET strict == min_words > 200 \/ min_longest > 10
    IN  \/ RuleCommons(n) < (IF strict THEN 3 ELSE IF min_words > 100 THEN 2 ELSE 1)
        \/ 2 * RuleMulti(n) > n
        \/ strict /\ (RuleVowels(n) < 3 \/ ~RuleEndings(n))

(* The vowel fraction rule on the exact ratio vowels / n, in percent:      *)
(* below lo or above hi.                                                   *)
ExactFractionRejects(n, min_words) ==
    LET lo == IF min_words > 100 THEN 20 ELSE 15
        hi == IF min_words > 100 THEN 55 ELSE 65
    IN  100 * RuleVowels(n) < lo * n \/ 100 * RuleVowels(n) > hi * n

(* The vowel fraction rule on the percentage cut to a whole number: below  *)
(* lo, or hi + 1 and more.                                                 *)
WholePercentRejects(n, min_words) ==
    LET lo == IF min_words > 100 THEN 20 ELSE 15
        hi == IF min_words > 100 THEN 55 ELSE 65
    IN  100 * RuleVowels(n) < lo * n \/ 100 * RuleVowels(n) >= (hi + 1) * n

BoardTiles == g_board_width * g_board_height

(* C22 as stated: board_looks_promising returns false exactly when a rule  *)
(* fails, the vowel fraction being the exact ratio vowels / n.             *)
C22_PrefilterExactRules ==
    BoardPlaced /\ BoardTiles <= 36 =>
        \A mw \in PrefilterMinWords : \A ml \in PrefilterMinLongest :
            ~Promising(mw, ml) <=>
                ExactFractionRejects(BoardTiles, mw) \/ OtherRulesReject(BoardTiles, mw, ml)

(* C22 amended: board_looks_promising returns false exactly when a rule    *)
(* fails, the vowel fraction being the percentage 100 * vowels / n cut to  *)
(* a whole number, so that a fraction above 65% (55%) and below 66% (56%)  *)
(* is not rejected.                                                        *)
C22_PrefilterWholePercent ==
    BoardPlaced /\ BoardTiles <= 36 =>
        \A mw \in PrefilterMinWords : \A ml \in PrefilterMinLongest :
            ~Promising(mw, ml) <=>
                WholePercentRejects(BoardTiles, mw) \/ OtherRulesReject(BoardTiles, mw, ml)

(* C22 witness: the prefilter passed a 3x3 board with five vowels under    *)
(* min_words = 101, a fraction of 55.6%, and the board was searched.       *)
C22_Witness ==
    /\ call.kind = "get_words"
    /\ BoardTiles = 9
    /\ call.cons.min_words > 100
    /\ rolled # << >> /\ rolled[Len(rolled)].searched
    /\ RuleVowels(9) = 5
    /\ ExactFractionRejects(9, call.cons.min_words)
    /\ ~OtherRulesReject(9, call.cons.min_words, call.cons.min_longest)

(* A board of 23 tiles with 15 vowels, 65.2%, is in place. *)
C22_JustAbove65 ==
    /\ BoardInPlace /\ BoardTiles = 23
    /\ Promising(0, 0)
    /\ ExactFractionRejects(23, 0)

(* The points of a word of length len under a table that is clamped: its   *)
(* entry at len, and its last entry for a length past its end.             *)
PointsFor(table, len) == table[(IF len < Len(table) THEN len ELSE Len(table) - 1) + 1]

(* C23: the points added for a novel word of length L are score_table[L]   *)
(* when L is within the table and the table's last entry when L is past    *)
(* its end.                                                                *)
C23_ScoreClampsToTable ==
    [][ Searching /\ Searching' /\ g_num_words' = g_num_words + 1
        /\ (g_board_failed' => g_num_words' <= g_max_words)
           => g_score' = g_score + PointsFor(g_score_counts, Len(CStr(g_word'))) ]_vars

(* The same for the words whose length is within the table. *)
C23_ScoreWithinTable ==
    [][ Searching /\ Searching' /\ g_num_words' = g_num_words + 1
        /\ (g_board_failed' => g_num_words' <= g_max_words)
        /\ Len(CStr(g_word')) < Len(g_score_counts)
           => g_score' = g_score + PointsFor(g_score_counts, Len(CStr(g_word'))) ]_vars

(* A word of five letters was accepted under the table of five entries. *)
C23_WordPastTable ==
    /\ Searching
    /\ Len(g_score_counts) = 5
    /\ \E word \in FoundWords : Len(word) = 5

(* The draw sequences (j_0, ..., j_{n-2}) with j_i in i..n-1. *)
DrawSeqs(n) ==
    { d \in [1..(n - 1) -> 0..(n - 1)] : \A k \in 1..(n - 1) : d[k] >= k - 1 }

(* The array after the swaps of the draws d from loop index i on. *)
RECURSIVE ApplyDraws(_, _, _)
ApplyDraws(array, d, i) ==
    IF i >= Len(d) THEN array
    ELSE ApplyDraws([array EXCEPT ![i + 1] = array[d[i + 1] + 1],
                                  ![d[i + 1] + 1] = array[i + 1]], d, i + 1)

(* The orders of the elements of array. *)
Orders(array) ==
    { [k \in 1..Len(array) |-> array[f[k]]] :
        f \in { g \in [1..Len(array) -> 1..Len(array)] :
                  \A a, b \in 1..Len(array) : a # b => g[a] # g[b] } }

RECURSIVE Factorial(_)
Factorial(n) == IF n <= 1 THEN 1 ELSE n * Factorial(n - 1)

ShuffleDone == pc = "shuffle" /\ count >= call.n - 1

(* C24: shuffle_array draws j_i from i..n-1 for i = 0..n-2, and the map    *)
(* from draw sequences to orders of the array is one-to-one and onto all   *)
(* n! orders.                                                              *)
C24_ShuffleBijection ==
    /\ pc = "shuffle" =>
          /\ Len(draws) = count
          /\ \A k \in 1..Len(draws) : draws[k] \in (k - 1)..(call.n - 1)
    /\ ShuffleDone =>
          /\ Len(draws) = (IF call.n > 1 THEN call.n - 1 ELSE 0)
          /\ g_dice_set = ApplyDraws(call.set, draws, 0)
          /\ \A d \in DrawSeqs(call.n) :
                ApplyDraws(call.set, d, 0) = g_dice_set => d = draws
          /\ { ApplyDraws(call.set, d, 0) : d \in DrawSeqs(call.n) } = Orders(call.set)
          /\ Cardinality(Orders(call.set)) = Factorial(call.n)
          /\ Cardinality(DrawSeqs(call.n)) = Factorial(call.n)

(* C24 witness: the shuffle of MaxDice dice is over and left the array in  *)
(* reverse order.                                                          *)
C24_Witness ==
    /\ ShuffleDone
    /\ call.n = MaxDice
    /\ g_dice_set = [k \in 1..call.n |-> call.set[call.n + 1 - k]]

(* The neighbour order of the traversal: top-left, top, top-right, left,   *)
(* right, bottom-left, bottom, bottom-right, as <<dy, dx>>.                *)
NeighbourOrder == << <<-1, -1>>, <<-1, 0>>, <<-1, 1>>, <<0, -1>>, <<0, 1>>,
                     <<1, -1>>, <<1, 0>>, <<1, 1>> >>

(* The non-empty prefixes of the words of D. *)
Prefixes(D) == UNION { { SubSeq(wd, 1, k) : k \in 1..Len(wd) } : wd \in D }

InSeq(q, v) == \E k \in 1..Len(q) : q[k] = v

(* The words in the order of their first acceptance, continued from the    *)
(* list acc by a visit of tile (y, x) with the letters `text` so far: the  *)
(* tile's letters are added, the word is accepted if it is a word of D of  *)
(* at least g_min_legal letters not yet in the list, and the in-bounds     *)
(* neighbours are visited in NeighbourOrder while the text is a prefix of  *)
(* a word of D.  A list never gets shorter.                                *)
RECURSIVE OrderVisit(_, _, _, _, _, _, _)
RECURSIVE OrderNeighbours(_, _, _, _, _, _, _, _)
OrderVisit(acc, text, y, x, used, D, P) ==
    LET p == y * g_board_width + x
        mask == Mask(p, build)
        text2 == text \o TileLetters(g_dice[p + 1], stray)
        novel == text2 \in D /\ Len(text2) >= g_min_legal /\ ~InSeq(acc, text2)
        acc2 == IF novel THEN Append(acc, text2) ELSE acc
    IN  IF used \cap mask # {} \/ text2 \notin P THEN acc
        ELSE IF Len(acc2) < Len(acc) THEN acc
        ELSE OrderNeighbours(acc2, text2, y, x, used \cup mask, 1, D, P)

OrderNeighbours(acc, text, y, x, used, d, D, P) ==
    IF d > 8 THEN acc
    ELSE LET ny == y + NeighbourOrder[d][1]
             nx == x + NeighbourOrder[d][2]
             on_board == ny >= 0 /\ ny < g_board_height /\ nx >= 0 /\ nx < g_board_width
             acc2 == IF on_board THEN OrderVisit(acc, text, ny, nx, used, D, P) ELSE acc
         IN  IF Len(acc2) < Len(acc) THEN acc
             ELSE OrderNeighbours(acc2, text, y, x, used, d + 1, D, P)

(* The start positions in row-major order from position p on. *)
RECURSIVE OrderStarts(_, _, _, _)
OrderStarts(acc, p, D, P) ==
    IF p >= g_board_width * g_board_height THEN acc
    ELSE LET acc2 == OrderVisit(acc, << >>, p \div g_board_width, p % g_board_width,
                                {}, D, P)
         IN  IF Len(acc2) < Len(acc) THEN acc
             ELSE OrderStarts(acc2, p + 1, D, P)

AcceptanceOrder ==
    LET D == DictionaryWords(dawg)
    IN  OrderStarts(<< >>, 0, D, Prefixes(D))

(* C25: the returned list holds the found words in the order of their      *)
(* first acceptance under the traversal that visits the start positions    *)
(* row-major and, from each tile, the in-bounds neighbours in the order    *)
(* top-left, top, top-right, left, right, bottom-left, bottom,             *)
(* bottom-right.  A list is only returned for a search that ran to its     *)
(* end: get_words rolls on after a search an upper bound cut short, and    *)
(* restore_game sets no upper bound.                                       *)
C25_AcceptanceOrder ==
    Returned => ~g_board_failed /\ ret.words = AcceptanceOrder

(* C25 witness: a returned list of four or more words that is not in       *)
(* alphabetical order of its first two words.                              *)
C25_Witness ==
    /\ Returned
    /\ ~g_board_failed
    /\ Len(ret.words) >= 4
    /\ ret.words = AcceptanceOrder
    /\ ret.words[1][1] > ret.words[2][1]

(* A step that is a call of find_words. *)
FindWordsCalled == visit' # visit

(* C26: no call of find_words reads dawg[0] -- the letter, end-of-word,    *)
(* sibling and child accessors are applied to non-zero indices only -- and *)
(* a call whose scan ends on index 0 returns true to its caller and leaves *)
(* the word buffer, the callers' used masks and the counters alone.        *)
C26_SentinelNeverRead ==
    [][ FindWordsCalled =>
          /\ 0 \notin visit'.reads
          /\ visit'.node = 0 =>
                /\ g_word' = g_word
                /\ UNCHANGED << counterVars, tableVars >>
                /\ pc' # "unwind"
                /\ Len(stack') = visit'.depth
                /\ \A k \in 1..Len(stack') : stack'[k].used = stack[k].used ]_vars

(* C26 witness: find_words was called on the missing child of a node       *)
(* (index 0) from a frame of the search and returned at once.              *)
C26_Witness ==
    /\ pc = "search"
    /\ visit.depth >= 1
    /\ visit.node = 0
    /\ visit.reads = {}
    /\ stack[visit.depth].i = 0

(* A scan ran down a sibling list of several nodes and ended on index 0. *)
C26_ListExhausted ==
    /\ pc \in {"search", "search_start"}
    /\ visit.node = 0
    /\ Cardinality(visit.reads) >= 3

(***************************************************************************)
(* History independence                                                    *)
(***************************************************************************)
(* An evaluation of the board in g_dice has just ended: find_all_words has *)
(* returned to restore_game, or to fill_board with either verdict.         *)
EvalDone ==
    \/ pc \in {"gw_tail", "rg_tail"}
    \/ /\ pc = "fill_board"
       /\ rolled # << >>
       /\ rolled[Len(rolled)].searched

(* The found words in the order they were inserted. *)
FoundInOrder == [k \in 1..Len(used_indices) |-> hash_table[used_indices[k]]]

(* The counters and the flag a process that has evaluated nothing before   *)
(* reaches when it accepts the words of `order` one after the other from   *)
(* its k-th word on, stopping where an upper bound trips.                  *)
RECURSIVE FreshCounters(_, _, _)
FreshCounters(order, k, c) ==
    IF k > Len(order) \/ c.failed THEN c
    ELSE FreshCounters(order, k + 1,
                       Accept(c.num_words, c.score, c.longest, Len(order[k]),
                              ScoreMemory(g_score_counts, past),
                              g_max_words, g_max_score, g_max_longest))

(* What a fresh process computes for the board, the constraints and the    *)
(* score table now in place.                                               *)
FreshEvaluation ==
    LET c == FreshCounters(AcceptanceOrder, 1,
                           [num_words |-> 0, score |-> 0, longest |-> 0,
                            failed |-> FALSE])
    IN  [words |-> SubSeq(AcceptanceOrder, 1, c.num_words),
         num_words |-> c.num_words, score |-> c.score, longest |-> c.longest,
         failed |-> c.failed,
         verdict |-> /\ ~c.failed
                     /\ FinalChecks(c.num_words, c.score, c.longest, g_min_words,
                                    g_min_score, g_min_longest, g_max_longest)]

(* C27: whatever was evaluated and called before, an evaluation ends with  *)
(* the words, num_words, score, longest, fail flag and verdict that a      *)
(* fresh process computes for the same board, constraints and score table. *)
C27_HistoryIndependent ==
    EvalDone =>
        LET f == FreshEvaluation
        IN  /\ FoundInOrder = f.words
            /\ g_num_words = f.num_words
            /\ g_score = f.score
            /\ g_longest = f.longest
            /\ g_board_failed = f.failed
            /\ call.kind = "get_words" =>
                  rolled[Len(rolled)].accepted = f.verdict

(* C27 witness: the second call of a process ends an evaluation that       *)
(* found words, after a first call that rolled a board the prefilter       *)
(* skipped or the search rejected and returned other words.                *)
C27_Witness ==
    /\ EvalDone
    /\ phase = 2
    /\ call.kind = "get_words"
    /\ g_num_words >= 1
    /\ ~ret1.null
    /\ ret1.tries = 2
    /\ FoundInOrder # ret1.words

(* C27 second witness state: a restore_game evaluation that follows a      *)
(* restore_game call on another board.                                     *)
C27_AfterRestore ==
    /\ EvalDone
    /\ phase = 2
    /\ call1.kind = "restore_game"
    /\ g_num_words >= 1
    /\ FoundInOrder # ret1.words

(* C27 third witness state: an evaluation aborted on an upper bound in the *)
(* second call of a process whose first call returned a board.             *)
C27_AbortedAfterSuccess ==
    /\ EvalDone
    /\ phase = 2
    /\ g_board_failed
    /\ ~ret1.null

(***************************************************************************)
(* Preallocated storage                                                    *)
(***************************************************************************)
(* The words find_words(i, Len(word), y, x, used) and the calls below it   *)
(* hand to insert when no upper bound trips.                               *)
RECURSIVE SpelledFrom(_, _, _, _, _)
SpelledFrom(i, word, y, x, used) ==
    LET pos == y * g_board_width + x
        mask == Mask(pos, build)
        sought == g_dice[pos + 1]
        node == MatchTile(dawg, i, sought, stray)
        word2 == word \o TileLetters(sought, stray)
    IN  IF TileUsed(used, mask) \/ node = 0 THEN {}
        ELSE (IF IsCandidate(dawg, node, Len(word2), g_min_legal) THEN {word2} ELSE {})
             \cup UNION { SpelledFrom(DAWG_CHILD(dawg, node), word2,
                                      y + g_deltas[d][1], x + g_deltas[d][2],
                                      used \cup mask) :
                            d \in { e \in 1..8 : InBounds(y + g_deltas[e][1],
                                                          x + g_deltas[e][2],
                                                          g_max_y, g_max_x) } }

(* The words an evaluation of the board in g_dice inserts when no upper    *)
(* bound trips.                                                            *)
BoardSpells ==
    UNION { SpelledFrom(1, << >>, p \div g_board_width, p % g_board_width, {}) :
              p \in 0..(g_board_width * g_board_height - 1) }

(* find_all_words has reset the table and is about to start the search of  *)
(* a board of at most 36 tiles under no upper bound on the word count.     *)
EvalStarts ==
    /\ pc = "search_start"
    /\ sy = 0 /\ sx = 0
    /\ g_board_width * g_board_height <= 36
    /\ g_max_words = INT32_MAX /\ g_max_score = INT32_MAX /\ g_max_longest = INT32_MAX

(* C28: the inserts of one evaluation of a board of at most 36 tiles fit   *)
(* the preallocated arrays: the words the evaluation is about to insert    *)
(* number at most MAX_WORDS, so that used_count <= MAX_WORDS + 1 and       *)
(* g_num_words <= MAX_WORDS when it ends and the NULL terminator fits.     *)
C28_StorageSuffices ==
    EvalStarts => Cardinality(BoardSpells) <= MAX_WORDS

(* The counters stay within the arrays, and no insert has stored past      *)
(* used_indices.                                                           *)
C28_CountersWithinArrays ==
    /\ Len(used_indices) <= MAX_WORDS + 1
    /\ g_num_words <= MAX_WORDS
    /\ pc # "overrun"

(* An evaluation under no upper bound has inserted the words BoardSpells   *)
(* gives for its board.                                                    *)
C28_EvaluationInsertsBoardSpells ==
    /\ pc \in {"gw_tail", "rg_tail"}
    /\ g_board_width * g_board_height <= 36
    /\ g_max_words = INT32_MAX /\ g_max_score = INT32_MAX /\ g_max_longest = INT32_MAX
    => /\ { hash_table[s] : s \in DOMAIN hash_table } = BoardSpells
       /\ g_num_words = Cardinality(BoardSpells)
       /\ Len(used_indices) = Cardinality(BoardSpells)

(***************************************************************************)
(* The rolls and the constraints                                           *)
(***************************************************************************)
(* The generator state after k draws from state s: the first half of the  *)
(* draws, then the rest.                                                   *)
RECURSIVE AfterDraws(_, _)
AfterDraws(s, k) ==
    IF k = 0 THEN s
    ELSE IF k = 1 THEN Random(s)
    ELSE LET half == AfterDraws(s, k \div 2)
         IN  IF half < 0 THEN half ELSE AfterDraws(half, k - (k \div 2))

(* make_dice called t times in a row on the array `set` after              *)
(* srandom(seed): [set, dice, rng] after the t-th call.  It takes nothing  *)
(* but the array, the seed and the board's dimensions.                     *)
RECURSIVE RollNumber(_, _, _, _, _)
RollNumber(set, seed, width, height, t) ==
    IF t = 0 THEN [set |-> set, dice |-> << >>, rng |-> Srandom(seed)]
    ELSE LET before == RollNumber(set, seed, width, height, t - 1)
         IN  make_dice(before.set, width, height, before.rng)

(* get_words is past its set-up. *)
Rolling == call.kind = "get_words" /\ pc \notin {"load", "start", "fatal"}

(* C29: the t-th board get_words rolls is the board of the t-th make_dice  *)
(* in a row from the caller's array and seed, and after t attempts the     *)
(* generator has been drawn from t * (2n - 1) times, n = width * height,   *)
(* whatever became of the earlier boards: the rolls do not depend on the   *)
(* constraints, min_legal or max_tries.                                    *)
C29_RollsIgnoreConstraints ==
    Rolling =>
        LET n == call.width * call.height
        IN  /\ \A t \in 1..Len(rolled) :
                  rolled[t].board = RollNumber(call.set, call.random_seed,
                                               call.width, call.height, t).dice
            /\ rng = AfterDraws(Srandom(call.random_seed), Len(rolled) * (2 * n - 1))
            /\ g_dice_set = RollNumber(call.set, call.random_seed,
                                       call.width, call.height, Len(rolled)).set

(* C29 witness: a second board, different from the first, has been rolled  *)
(* after the search of the first was aborted on an upper bound.            *)
C29_Witness ==
    /\ Rolling
    /\ Len(rolled) = 2
    /\ rolled[1].searched /\ ~rolled[1].accepted
    /\ g_board_failed
    /\ rolled[2].board # rolled[1].board
    /\ pc = "prefilter"

(* C29 second witness state: a second board rolled after the prefilter     *)
(* turned the first away.                                                  *)
C29_AfterPrefilter ==
    /\ Rolling
    /\ Len(rolled) = 2
    /\ ~rolled[1].searched
    /\ rolled[2].board # rolled[1].board

(***************************************************************************)
(* Two interleaved calls                                                   *)
(***************************************************************************)
(* What restore_game returns for the layout of call c when nothing else    *)
(* runs in the process.                                                    *)
AloneWords(c) == BoardWords(dawg, c.dice, c.width, c.height, 0)

(* The thread with locals t has returned from a call during which no       *)
(* other thread ran. *)
ReturnedAlone(t) == t.pc = "returned" /\ t.alone

RunningThread == [pc |-> pc, stack |-> stack, sy |-> sy, sx |-> sx, call |-> call,
                  ret |-> ret, alone |-> alone]

(* C30: of the state the two calls share only the dictionary is safe: no   *)
(* step of either search writes it, and a call during which the other      *)
(* thread did not run returns the words it returns alone -- a guarantee    *)
(* that calls the other thread ran into do not have (C30_Witness).         *)
C30_OnlyDictionaryShared ==
    /\ pc # "load" => dawg = read_dawg(file).dawg
    /\ \A t \in {RunningThread, other} :
          ReturnedAlone(t) => SeqToSet(t.ret.words) = AloneWords(t.call)

(* C30 witness: a restore_game call that the other thread's call ran into  *)
(* has returned a list that is not the list it returns alone.              *)
C30_Witness ==
    /\ pc = "returned"
    /\ ~alone
    /\ other.pc # "none"
    /\ SeqToSet(ret.words) # AloneWords(call)

(* C30 second witness state: both threads have returned, and the call on   *)
(* "SE" holds a word its board does not spell.                             *)
C30_ForeignWord ==
    /\ pc = "returned" /\ other.pc = "returned"
    /\ \E t \in {RunningThread, other} :
          /\ t.call = ThreadCallB
          /\ \E k \in 1..Len(t.ret.words) : t.ret.words[k] \notin AloneWords(t.call)

=============================================================================
